---- MODULE Spec2Model ----
(***************************************************************************)
(* Nexus MCP gateway: the transport layer (SSETransport, TransportManager, *)
(* the discoverer's request helper) and the virtual-server runtime         *)
(* (VMCPManager, VMCPInstance), as state machines.                         *)
(*                                                                         *)
(* JavaScript runs one callback at a time: every action below is the code  *)
(* that runs between two suspension points (await, timer, I/O callback).   *)
(***************************************************************************)
EXTENDS Integers, Sequences, FiniteSets, TLC

\* ------------------------------------------------------------------------
\* Bounds
\* ------------------------------------------------------------------------
MaxReq == 2        \* requests issued on the transport in one behaviour
MaxBurst == 3      \* requests issued in one behaviour of the queue specification
MaxId == 2         \* JSON-RPC correlation ids are 1..MaxId
MaxQueue == 2      \* messages buffered while the transport is not connected
MaxVmcp == 2       \* vMCP definitions added in one behaviour
MaxInst == 2       \* VMCPInstance objects constructed in one behaviour
MaxSess == 2       \* client SSE sessions opened in one behaviour
MaxObj == 3        \* SSETransport objects constructed in one behaviour
MaxCreate == 2     \* POST /mcp-servers requests handled at the same time

\* isPortInUse's literal for the management port, and two other ports.
MainServerPort == 3000
AltMainPort == 4000
VmcpPort == 5001

ReqIdx == 1..MaxBurst
ReqLow == 1..MaxReq
Ids == 1..MaxId

\* The configured upstreams, and the one whose transport the request layer
\* models in detail.
Sources == {"U1", "U2"}
Upstream == "U1"

\* Handler references held by transport.onmessage: the handler the user had
\* installed (possibly undefined), or the temporary handler of request r.
User == 0

VARIABLES
    \* --- TransportManager (server/transport/manager.ts) ---
    transports,           \* keys of TransportManager.transports
    connectedIds,         \* TransportManager.connectedIds
    \* --- SSETransport of Upstream (transport/SSETransport.ts) ---
    isConnected,          \* SSETransport.isConnected, per upstream
    messageQueue,         \* SSETransport.messageQueue (request indices)
    messageHandlers,      \* SSETransport.messageHandlers: id -> request
    userOnMessageHandler, \* SSETransport.userOnMessageHandler
    retryCount,           \* SSETransport.retryCount
    starters,             \* start() invocations awaiting transport.start()
    flushers,             \* start() invocations inside processMessageQueue
    reconnecting,         \* start() invocations inside attemptReconnect
    upstreamRecv,         \* requests whose message the upstream has received
    req                   \* the requests issued so far

reqVars == <<transports, connectedIds, isConnected, messageQueue,
             messageHandlers, userOnMessageHandler, retryCount, starters,
             flushers, reconnecting, upstreamRecv, req>>

VARIABLES
    \* --- process environment and configuration ---
    mgmtPort,             \* port of the management HTTP server (server/index.ts)
    mcpServers,           \* ConfigManager's mcpServers: name, url, status, isDisabled
    catalog,              \* what each upstream answers to tools/prompts/resources list
    \* --- VMCPManager (server/vmcp/manager.ts) ---
    vmcpStore,            \* ids present in the module-level vmcpStore
    defs,                 \* the VMCPDefinition objects, by id
    runningInstances,     \* VMCPManager.runningInstances: id -> instance (0: none)
    \* --- VMCPInstance objects (server/vmcp/instance.ts) ---
    inst,                 \* the instances constructed so far
    sessions,             \* client SSE streams: owning instance, stream open
    lastRoute,            \* the last client request the runtime has routed
    lastReply,            \* the last response written to a client: whose request, which stream
    \* --- CapabilityRegistry and CapabilityDiscoverer (capabilities/) ---
    registry,             \* names registered per server and kind
    disc,                 \* the discoverCapabilities() run of each server
    \* --- transport objects and management requests (api/routes.ts) ---
    held,                 \* the SSETransport object stored under each name
                          \* (0: none, or not followed in this specification)
    wired,                \* whose onclose/onerror that object carries
    lastOp,               \* the last operation on the transport table
    health,               \* the checkHealth() call in progress or returned
    creates,              \* the POST /mcp-servers requests being handled
    deleting,             \* the DELETE /mcp-servers/:serverId being handled
    \* --- CapabilityRefreshManager (capabilities/refresh.ts) ---
    refresh,              \* its timers map, interval, and updateInterval loop
    \* --- PUT /mcp-servers/:serverId/connection (routes) ---
    toggle                \* the request being handled: position, body, config read

\* The variables of the management layer, and the others of the runtime.
opVars == <<health, creates, deleting, refresh, toggle>>
cfgVars == <<held, wired, lastOp, opVars>>
vmCore == <<mgmtPort, mcpServers, catalog, vmcpStore, defs, runningInstances,
            inst, sessions, lastRoute, lastReply, registry, disc>>

vmVars == <<mgmtPort, cfgVars, mcpServers, catalog, vmcpStore, defs, runningInstances,
            inst, sessions, lastRoute, lastReply, registry, disc>>


\* ------------------------------------------------------------------------
\* Request layer: helpers
\* ------------------------------------------------------------------------
MaxRetries == 2    \* SSETransport options.maxRetries as configured here

NoReq == [via |-> "none", id |-> 0, state |-> "none", timer |-> FALSE,
          send |-> "none", orig |-> User, answered |-> FALSE, resp |-> 0,
          err |-> "none"]

\* resolve()/reject() of a Promise: only the first call settles it.
Settle(r, outcome) == IF r.state = "pending" THEN outcome ELSE r.state

\* The response id recorded by the first settlement.
SettleResp(r, mid) == IF r.state = "pending" THEN mid ELSE r.resp

\* The request issued next: indices are handed out in order.
IsNext(r) ==
    /\ req[r].state = "none"
    /\ \A q \in ReqIdx : q < r => req[q].state # "none"

\* tempOnMessage(response): walk the chain of temporary handlers from h;
\* the first handler whose messageId equals the message id consumes the
\* message, every other one passes it to its originalOnMessage.
RECURSIVE FirstMatch(_, _, _)
FirstMatch(rq, h, mid) ==
    IF h = User THEN User
    ELSE IF rq[h].id = mid THEN h
    ELSE FirstMatch(rq, rq[h].orig, mid)

\* targetTransport.onmessage with a return after the routing: a message
\* that matched an entry of messageHandlers is not passed to
\* userOnMessageHandler.
InboundReqRouted(rq, mid, isErr) ==
    LET h == messageHandlers[mid]
        m == IF h = User THEN FirstMatch(rq, userOnMessageHandler, mid) ELSE User
        out == IF isErr THEN "error" ELSE "result"
    IN [r \in ReqIdx |->
          IF r = h
          THEN [rq[r] EXCEPT !.timer = FALSE,
                             !.state = Settle(rq[r], out),
                             !.resp = SettleResp(rq[r], mid)]
          ELSE IF r = m
          THEN [rq[r] EXCEPT !.timer = FALSE,
                             !.state = Settle(rq[r],
                                 IF rq[r].via = "disc" THEN "result" ELSE out),
                             !.resp = SettleResp(rq[r], mid)]
          ELSE rq[r]]

\* targetTransport.onmessage: route to messageHandlers.get(id), delete the
\* entry, then call userOnMessageHandler (the chain of temporary handlers).
InboundReq(rq, mid, isErr) ==
    LET h == messageHandlers[mid]
        m == FirstMatch(rq, userOnMessageHandler, mid)
        out == IF isErr THEN "error" ELSE "result"
    IN [r \in ReqIdx |->
          IF r = h
          THEN [rq[r] EXCEPT !.timer = FALSE,
                             !.state = Settle(rq[r], out),
                             !.resp = SettleResp(rq[r], mid)]
          ELSE IF r = m
          THEN [rq[r] EXCEPT !.timer = FALSE,
                             !.state = Settle(rq[r],
                                 IF rq[r].via = "disc" THEN "result" ELSE out),
                             !.resp = SettleResp(rq[r], mid)]
          ELSE rq[r]]

InboundHandler(mid) ==
    LET m == FirstMatch(req, userOnMessageHandler, mid)
    IN IF m = User THEN userOnMessageHandler ELSE req[m].orig

\* ------------------------------------------------------------------------
\* Request layer: issuing requests
\* ------------------------------------------------------------------------

\* transport.send(message) as called by the two request helpers: POST at
\* once when connected, else queue the message and start() in background.
SendVia(r) ==
    IF isConnected[Upstream]
    THEN /\ UNCHANGED <<messageQueue, starters>>
    ELSE /\ Len(messageQueue) < MaxQueue
         /\ messageQueue' = Append(messageQueue, r)
         /\ starters' = starters \cup {<<"bg", 0>>}

\* TransportManager.request(serverId, message)
TMRequest(r, i) ==
    /\ IsNext(r)
    /\ IF Upstream \notin transports \/ Upstream \notin connectedIds
       THEN /\ req' = [req EXCEPT ![r] = [NoReq EXCEPT !.via = "tm", !.id = i,
                                                       !.state = "error"]]
            /\ UNCHANGED <<userOnMessageHandler, messageQueue, starters>>
       ELSE /\ req' = [req EXCEPT ![r] =
                         [NoReq EXCEPT !.via = "tm", !.id = i,
                                       !.state = "pending", !.timer = TRUE,
                                       !.orig = userOnMessageHandler,
                                       !.send = IF isConnected[Upstream] THEN "inflight"
                                                ELSE "queued"]]
            /\ userOnMessageHandler' = r
            /\ SendVia(r)
    /\ UNCHANGED <<transports, connectedIds, isConnected, messageHandlers,
                   retryCount, flushers, reconnecting,
                   upstreamRecv>>

\* CapabilityDiscoverer.manualRequestResponse(transport, requestMessage)
DiscRequest(r, i) ==
    /\ IsNext(r)
    /\ req' = [req EXCEPT ![r] =
                 [NoReq EXCEPT !.via = "disc", !.id = i,
                               !.state = "pending", !.timer = TRUE,
                               !.orig = userOnMessageHandler,
                               !.send = IF isConnected[Upstream] THEN "inflight"
                                        ELSE "queued"]]
    /\ userOnMessageHandler' = r
    /\ SendVia(r)
    /\ UNCHANGED <<transports, connectedIds, isConnected, messageHandlers,
                   retryCount, flushers, reconnecting,
                   upstreamRecv>>

\* The part of SSETransport.request after the connection check: register
\* the handler, sendInternal(message), arm the timeout.
Registered(r, i) ==
    [NoReq EXCEPT !.via = "sse", !.id = i, !.state = "pending",
                  !.timer = TRUE, !.send = "inflight"]

\* SSETransport.request(message); its callers mint a fresh id for every
\* request (the id of a direct request is never used twice).
SSERequest(r, i) ==
    /\ IsNext(r)
    /\ \A q \in ReqIdx : req[q].via = "sse" => req[q].id # i
    /\ IF isConnected[Upstream]
       THEN /\ req' = [req EXCEPT ![r] = Registered(r, i)]
            /\ messageHandlers' = [messageHandlers EXCEPT ![i] = r]
            /\ UNCHANGED starters
       ELSE /\ req' = [req EXCEPT ![r] =
                         [NoReq EXCEPT !.via = "sse", !.id = i,
                                       !.state = "pending",
                                       !.send = "awaitStart"]]
            /\ starters' = starters \cup {<<"req", r>>}
            /\ UNCHANGED messageHandlers
    /\ UNCHANGED <<transports, connectedIds, isConnected, messageQueue,
                   userOnMessageHandler, retryCount, flushers, reconnecting,
                   upstreamRecv>>


\* ------------------------------------------------------------------------
\* Request layer: responses, timeouts, POST results
\* ------------------------------------------------------------------------

\* The upstream answers the message of request r on the SSE stream, with a
\* result or with a JSON-RPC error.
Deliver(r, isErr) ==
    /\ r \in upstreamRecv
    /\ isConnected[Upstream]
    /\ LET mid == req[r].id
           rq == [req EXCEPT ![r].answered = @ \/ (req[r].state = "pending")]
       IN /\ req' = InboundReq(rq, mid, isErr)
          /\ messageHandlers' = [messageHandlers EXCEPT ![mid] = User]
          /\ userOnMessageHandler' = InboundHandler(mid)
    /\ upstreamRecv' = upstreamRecv \ {r}
    /\ UNCHANGED <<transports, connectedIds, isConnected, messageQueue,
                   retryCount, starters, flushers, reconnecting>>

\* The timeout callback of TransportManager.request, with the reject moved
\* inside the handler check.
TimeoutTMGuarded(r) ==
    /\ req[r].via = "tm" /\ req[r].timer
    /\ IF userOnMessageHandler = r
       THEN /\ userOnMessageHandler' = req[r].orig
            /\ req' = [req EXCEPT ![r].timer = FALSE,
                                  ![r].state = Settle(req[r], "timeout")]
       ELSE /\ req' = [req EXCEPT ![r].timer = FALSE]
            /\ UNCHANGED userOnMessageHandler
    /\ UNCHANGED <<transports, connectedIds, isConnected, messageQueue,
                   messageHandlers, retryCount, starters, flushers,
                   reconnecting, upstreamRecv>>

\* The timeout callback of TransportManager.request.
TimeoutTM(r) ==
    /\ req[r].via = "tm" /\ req[r].timer
    /\ userOnMessageHandler' =
          IF userOnMessageHandler = r THEN req[r].orig
          ELSE userOnMessageHandler
    /\ req' = [req EXCEPT ![r].timer = FALSE,
                          ![r].state = Settle(req[r], "timeout")]
    /\ UNCHANGED <<transports, connectedIds, isConnected, messageQueue,
                   messageHandlers, retryCount, starters, flushers,
                   reconnecting, upstreamRecv>>

\* The timeout callback of manualRequestResponse.
TimeoutDisc(r) ==
    /\ req[r].via = "disc" /\ req[r].timer
    /\ userOnMessageHandler' = req[r].orig
    /\ req' = [req EXCEPT ![r].timer = FALSE,
                          ![r].state = Settle(req[r], "timeout")]
    /\ UNCHANGED <<transports, connectedIds, isConnected, messageQueue,
                   messageHandlers, retryCount, starters, flushers,
                   reconnecting, upstreamRecv>>

\* The timeout callback of SSETransport.request.
TimeoutSSE(r) ==
    /\ req[r].via = "sse" /\ req[r].timer
    /\ IF messageHandlers[req[r].id] # User
       THEN /\ messageHandlers' = [messageHandlers EXCEPT ![req[r].id] = User]
            /\ req' = [req EXCEPT ![r].timer = FALSE,
                                  ![r].state = Settle(req[r], "timeout")]
       ELSE /\ req' = [req EXCEPT ![r].timer = FALSE]
            /\ UNCHANGED messageHandlers
    /\ UNCHANGED <<transports, connectedIds, isConnected, messageQueue,
                   userOnMessageHandler, retryCount, starters, flushers,
                   reconnecting, upstreamRecv>>

\* The POST of sendInternal(message) succeeds: the upstream has the message.
SendOk(r) ==
    /\ req[r].send = "inflight"
    /\ req' = [req EXCEPT ![r].send = "sent"]
    /\ upstreamRecv' = IF isConnected[Upstream] THEN upstreamRecv \cup {r}
                       ELSE upstreamRecv
    /\ UNCHANGED <<transports, connectedIds, isConnected, messageQueue,
                   messageHandlers, userOnMessageHandler, retryCount,
                   starters, flushers, reconnecting>>

\* The POST fails: the .catch of the request helper runs.
SendFail(r) ==
    /\ req[r].send = "inflight"
    /\ IF req[r].via = "sse"
       THEN /\ messageHandlers' = [messageHandlers EXCEPT ![req[r].id] = User]
            /\ req' = [req EXCEPT ![r].send = "failed",
                                  ![r].state = Settle(req[r], "error")]
            /\ UNCHANGED userOnMessageHandler
       ELSE /\ userOnMessageHandler' = req[r].orig
            /\ req' = [req EXCEPT ![r].send = "failed", ![r].timer = FALSE,
                                  ![r].state = Settle(req[r], "error")]
            /\ UNCHANGED messageHandlers
    /\ UNCHANGED <<transports, connectedIds, isConnected, messageQueue,
                   retryCount, starters, flushers, reconnecting,
                   upstreamRecv>>


\* ------------------------------------------------------------------------
\* Request layer: start(), processMessageQueue(), attemptReconnect()
\* ------------------------------------------------------------------------
\* A start() invocation is named by its caller: send() (in the background),
\* TransportManager.connect(), or SSETransport.request() of request r.
Bg == <<"bg", 0>>
Conn == <<"conn", 0>>
ByReq(r) == <<"req", r>>
Origins == {Bg, Conn} \cup {ByReq(r) : r \in ReqIdx}

\* What the caller of start() does when start() returns: connect() records
\* the id, request() registers its handler and sends, send() does nothing.
StartReturned(o) ==
    /\ connectedIds' = IF o = Conn THEN connectedIds \cup {Upstream}
                       ELSE connectedIds
    /\ IF o[1] = "req"
       THEN /\ req' = [req EXCEPT ![o[2]] = Registered(o[2], req[o[2]].id)]
            /\ messageHandlers' =
                  [messageHandlers EXCEPT ![req[o[2]].id] = o[2]]
       ELSE UNCHANGED <<req, messageHandlers>>

\* What the caller does when start() throws the error err: request()
\* rejects with it.
StartThrew(o, err) ==
    /\ req' = IF o[1] = "req"
              THEN [req EXCEPT ![o[2]].send = "failed",
                               ![o[2]].state = Settle(req[o[2]], "error"),
                               ![o[2]].err = err]
              ELSE req
    /\ UNCHANGED <<connectedIds, messageHandlers>>

\* TransportManager.connect(serverId)
TMConnect ==
    /\ Upstream \in transports
    /\ Upstream \notin connectedIds
    /\ Conn \notin starters \cup flushers
    /\ IF isConnected[Upstream]
       THEN /\ connectedIds' = connectedIds \cup {Upstream}
            /\ UNCHANGED starters
       ELSE /\ starters' = starters \cup {Conn}
            /\ UNCHANGED connectedIds
    /\ UNCHANGED <<transports, isConnected, messageQueue, messageHandlers,
                   userOnMessageHandler, retryCount, flushers, reconnecting,
                   upstreamRecv, req>>

\* start(): transport.start() resolved; isConnected = true, then the queue
\* is processed.  A new SSE session begins.
StartOk(o) ==
    /\ o \in starters
    /\ isConnected' = [isConnected EXCEPT ![Upstream] = TRUE]
    /\ starters' = starters \ {o}
    /\ flushers' = flushers \cup {o}
    /\ upstreamRecv' = IF isConnected[Upstream] THEN upstreamRecv ELSE {}
    /\ UNCHANGED <<transports, connectedIds, messageQueue, messageHandlers,
                   userOnMessageHandler, retryCount, reconnecting, req>>

\* start(): transport.start() rejected with an error of the SDK (not a
\* TransportError): isConnected = false and the error is rethrown; inside
\* attemptReconnect the catch retries while retryCount < maxRetries.
StartFail(o) ==
    /\ o \in starters
    /\ isConnected' = [isConnected EXCEPT ![Upstream] = FALSE]
    /\ upstreamRecv' = {}
    /\ IF o \in reconnecting /\ retryCount < MaxRetries
       THEN /\ retryCount' = retryCount + 1
            /\ UNCHANGED <<starters, reconnecting, req, connectedIds,
                           messageHandlers>>
       ELSE /\ starters' = starters \ {o}
            /\ reconnecting' = reconnecting \ {o}
            /\ StartThrew(o, "sdk_error")
            /\ UNCHANGED retryCount
    /\ UNCHANGED <<transports, messageQueue, userOnMessageHandler, flushers>>

\* processMessageQueue(): one iteration, the POST of the head succeeds.
FlushStep(o) ==
    /\ o \in flushers
    /\ messageQueue # <<>>
    /\ messageQueue' = Tail(messageQueue)
    /\ req' = [req EXCEPT ![Head(messageQueue)].send = "sent"]
    /\ upstreamRecv' = IF isConnected[Upstream]
                       THEN upstreamRecv \cup {Head(messageQueue)}
                       ELSE upstreamRecv
    /\ UNCHANGED <<transports, connectedIds, isConnected, messageHandlers,
                   userOnMessageHandler, retryCount, starters, flushers,
                   reconnecting>>

\* processMessageQueue(): the POST of the head fails with a retryable
\* TransportError; start() catches it, sets isConnected = false and calls
\* attemptReconnect(), which gives up when retryCount >= maxRetries.
FlushFail(o) ==
    /\ o \in flushers
    /\ messageQueue # <<>>
    /\ messageQueue' = Tail(messageQueue)
    /\ isConnected' = [isConnected EXCEPT ![Upstream] = FALSE]
    /\ upstreamRecv' = {}
    /\ flushers' = flushers \ {o}
    /\ IF retryCount >= MaxRetries
       THEN /\ reconnecting' = reconnecting \ {o}
            /\ StartThrew(o, "reconnection_failed")
            /\ UNCHANGED <<retryCount, starters>>
       ELSE /\ retryCount' = retryCount + 1
            /\ starters' = starters \cup {o}
            /\ reconnecting' = reconnecting \cup {o}
            /\ UNCHANGED <<req, connectedIds, messageHandlers>>
    /\ UNCHANGED <<transports, userOnMessageHandler>>

\* processMessageQueue() finds the queue empty: start() returns, and an
\* enclosing attemptReconnect() resets retryCount.
FlushDone(o) ==
    /\ o \in flushers
    /\ messageQueue = <<>>
    /\ flushers' = flushers \ {o}
    /\ reconnecting' = reconnecting \ {o}
    /\ retryCount' = IF o \in reconnecting THEN 0 ELSE retryCount
    /\ StartReturned(o)
    /\ UNCHANGED <<transports, isConnected, messageQueue,
                   userOnMessageHandler, starters, upstreamRecv>>

\* start() with nothing queued: transport.start() resolved, isConnected =
\* true, processMessageQueue() finds the queue empty and start() returns to
\* its caller, all before any other callback runs.
StartDone(o) ==
    /\ o \in starters
    /\ messageQueue = <<>>
    /\ isConnected' = [isConnected EXCEPT ![Upstream] = TRUE]
    /\ starters' = starters \ {o}
    /\ upstreamRecv' = IF isConnected[Upstream] THEN upstreamRecv ELSE {}
    /\ reconnecting' = reconnecting \ {o}
    /\ retryCount' = IF o \in reconnecting THEN 0 ELSE retryCount
    /\ StartReturned(o)
    /\ UNCHANGED <<transports, messageQueue, userOnMessageHandler, flushers>>

\* processMessageQueue(): the POST of the last queued message succeeds, the
\* loop ends and start() returns to its caller.
FlushLast(o) ==
    /\ o \in flushers
    /\ Len(messageQueue) = 1
    /\ messageQueue' = <<>>
    /\ upstreamRecv' = IF isConnected[Upstream]
                       THEN upstreamRecv \cup {Head(messageQueue)}
                       ELSE upstreamRecv
    /\ flushers' = flushers \ {o}
    /\ reconnecting' = reconnecting \ {o}
    /\ retryCount' = IF o \in reconnecting THEN 0 ELSE retryCount
    /\ connectedIds' = IF o = Conn THEN connectedIds \cup {Upstream}
                       ELSE connectedIds
    /\ IF o[1] = "req"
       THEN /\ req' = [req EXCEPT
                         ![Head(messageQueue)].send = "sent",
                         ![o[2]] = Registered(o[2], req[o[2]].id)]
            /\ messageHandlers' =
                  [messageHandlers EXCEPT ![req[o[2]].id] = o[2]]
       ELSE /\ req' = [req EXCEPT ![Head(messageQueue)].send = "sent"]
            /\ UNCHANGED messageHandlers
    /\ UNCHANGED <<transports, isConnected, userOnMessageHandler, starters>>

\* ------------------------------------------------------------------------
\* Request layer: SSE events and disconnect
\* ------------------------------------------------------------------------

\* targetTransport.onerror: isConnected = false; the registry's onerror
\* handler removes the transport only for a non-retryable TransportError,
\* which an error of the SSE stream is not.
SseError ==
    /\ isConnected[Upstream]
    /\ isConnected' = [isConnected EXCEPT ![Upstream] = FALSE]
    /\ upstreamRecv' = {}
    /\ UNCHANGED <<transports, connectedIds, messageQueue, messageHandlers,
                   userOnMessageHandler, retryCount, starters, flushers,
                   reconnecting, req>>

\* targetTransport.onclose while the handlers addTransport installed are
\* in place: isConnected = false and the transport is removed.
SseClose ==
    /\ isConnected[Upstream]
    /\ isConnected' = [isConnected EXCEPT ![Upstream] = FALSE]
    /\ upstreamRecv' = {}
    /\ transports' = transports \ {Upstream}
    /\ connectedIds' = connectedIds \ {Upstream}
    /\ UNCHANGED <<messageQueue, messageHandlers, userOnMessageHandler,
                   retryCount, starters, flushers, reconnecting, req>>

\* targetTransport.onclose once the server's setup code has replaced the
\* handlers addTransport installed (it does so when connect() has
\* returned): isConnected = false, the configuration entry is marked
\* offline, and the transport stays registered and recorded as connected.
SseCloseWired ==
    /\ isConnected[Upstream]
    /\ Upstream \in connectedIds
    /\ isConnected' = [isConnected EXCEPT ![Upstream] = FALSE]
    /\ upstreamRecv' = {}
    /\ UNCHANGED <<transports, connectedIds, messageQueue, messageHandlers,
                   userOnMessageHandler, retryCount, starters, flushers,
                   reconnecting, req>>

\* TransportManager.disconnect(serverId): SSETransport.close(), then
\* removeTransport(serverId).
TMDisconnect ==
    /\ Upstream \in transports
    /\ isConnected' = [isConnected EXCEPT ![Upstream] = FALSE]
    /\ messageQueue' = <<>>
    /\ upstreamRecv' = {}
    /\ transports' = transports \ {Upstream}
    /\ connectedIds' = connectedIds \ {Upstream}
    /\ UNCHANGED <<messageHandlers, userOnMessageHandler, retryCount,
                   starters, flushers, reconnecting, req>>

\* TransportManager.addTransport(serverId, transport), for the transport
\* object of Upstream.
TMAddTransport ==
    /\ Upstream \notin transports
    /\ transports' = transports \cup {Upstream}
    /\ UNCHANGED <<connectedIds, isConnected, messageQueue, messageHandlers,
                   userOnMessageHandler, retryCount, starters, flushers,
                   reconnecting, upstreamRecv, req>>


\* ------------------------------------------------------------------------
\* Virtual-server runtime: domains
\* ------------------------------------------------------------------------
VIds == 1..MaxVmcp
InstIds == 1..MaxInst
SessIds == 1..MaxSess

KindSeq == <<"tools", "prompts", "resources">>
Kinds == {"tools", "prompts", "resources"}
Names == {"a", "b"}
NoSource == "none"

\* A resource URI outside every catalogue whose host names an upstream, and
\* the host the pattern ^mcp://([^/]+) extracts from an identifier.
UriOfU2 == "mcp://U2/r"
UriHost(id) == IF id = UriOfU2 THEN "U2" ELSE NoSource

\* The type of the include rule of each kind.
IncludeType == [tools |-> "include_tools", prompts |-> "include_prompts",
                resources |-> "include_resources"]

\* The method of the client request that addresses one capability of a kind.
MethodOf == [tools |-> "tools/call", prompts |-> "prompts/get",
             resources |-> "resources/get"]

NoDef == [port |-> 0, sourceServerIds |-> <<>>, aggregationRules |-> <<>>,
          status |-> "none", updatedAt |-> "current"]

\* definition.status = st, with or without the assignment of a new
\* timestamp to definition.updatedAt next to it.  updatedAt is followed
\* relative to the status: "current" when it was assigned no earlier than
\* the last change of the status, "stale" when the status changed since.
SetStatus(D, v, st, stamp) ==
    [D EXCEPT ![v].status = st,
              ![v].updatedAt = IF stamp THEN "current"
                               ELSE IF D[v].status = st THEN @ ELSE "stale"]

\* The fields of an instance: vid the definition it was constructed for;
\* startPc where its start() stands; agg where the aggregation run of
\* start() and that of a public method stand; aggregated the three arrays,
\* each entry with the source it came from; stopWait the caller whose stop()
\* awaits the close callback of the HTTP server.  Three fields are history:
\* contrib the identifiers each source's list responses offered since the
\* arrays were last cleared, stopDuringStart that a stop() began while
\* start() was suspended, stopDone that a stop() called by the manager has
\* returned.
\*
\* An aggregateCapabilities() run is suspended in the await of source number
\* k of sourceServerIds: of transport.start() or of one list request.
IdlePos == [k |-> 0, ph |-> "idle"]
EndPos == [k |-> 0, ph |-> "end"]
Slots == {"start", "call"}

EmptyView == [tools |-> <<>>, prompts |-> <<>>, resources |-> <<>>]
EmptyMap == [n \in Names |-> NoSource]
NoContrib == [k \in Kinds |-> [s \in Sources |-> {}]]

NoInst == [vid |-> 0, startPc |-> "none", auto |-> FALSE,
           agg |-> [sl \in Slots |-> IdlePos],
           aggregated |-> EmptyView, capabilityMap |-> EmptyMap,
           contrib |-> NoContrib,
           mcpServer |-> "null", handlers |-> {},
           httpServer |-> "null", activeClientTransports |-> {},
           stopWait |-> "none",
           stopDuringStart |-> FALSE, stopDone |-> FALSE]

NoSession == [inst |-> 0, open |-> FALSE]
NoRoute == [inst |-> 0, method |-> "none", id |-> "none", target |-> NoSource]
NoReply == [inst |-> 0, from |-> 0, on |-> 0]

\* ------------------------------------------------------------------------
\* VMCPInstance.aggregateCapabilities
\* ------------------------------------------------------------------------
HasRule(rules, t) == \E j \in 1..Len(rules) : rules[j].type = t

\* aggregationRules.find(r => r.type === t): the first rule of that type.
FindRule(rules, t) ==
    rules[CHOOSE j \in 1..Len(rules) :
              /\ rules[j].type = t
              /\ \A m \in 1..(j - 1) : rules[m].type # t]

ShouldFetch(rules, kind) ==
    HasRule(rules, "aggregate_all") \/ HasRule(rules, IncludeType[kind])

InRule(rules, kind, n) == n \in FindRule(rules, IncludeType[kind]).names

\* toolsToAdd / promptsToAdd / resourcesToAdd.
ToAdd(rules, kind, list) ==
    IF HasRule(rules, "aggregate_all")
    THEN list
    ELSE SelectSeq(list, LAMBDA n : InRule(rules, kind, n))

\* capabilityMap.get(id).
CapGet(map, id) == IF id \in DOMAIN map THEN map[id] ELSE NoSource

\* The forEach over the entries to add: an entry whose identifier the
\* routing map does not hold yet is pushed to the array and recorded in the
\* map; any other entry is skipped.
RECURSIVE MergeList(_, _, _, _)
MergeList(arr, map, s, list) ==
    IF list = <<>>
    THEN [arr |-> arr, map |-> map]
    ELSE IF CapGet(map, Head(list)) = NoSource
         THEN MergeList(Append(arr, <<Head(list), s>>),
                        [map EXCEPT ![Head(list)] = s], s, Tail(list))
         ELSE MergeList(arr, map, s, Tail(list))

\* From the point (source k, step ph) of the loop over sourceServerIds, the
\* next await the run suspends in.  Step 0 is the transport lookup and the
\* connection check, steps 1..3 the three list requests.  A missing
\* transport and a NOT_CONNECTED from TransportManager.request are thrown
\* without suspending and caught by the loop, which goes on with the next
\* source.
RECURSIVE NextPos(_, _, _, _)
NextPos(srcs, rules, k, ph) ==
    IF k > Len(srcs) THEN EndPos
    ELSE IF ph = 0
         THEN IF srcs[k] \notin transports THEN NextPos(srcs, rules, k + 1, 0)
              ELSE IF ~isConnected[srcs[k]] THEN [k |-> k, ph |-> "start"]
              ELSE NextPos(srcs, rules, k, 1)
    ELSE IF ph > Len(KindSeq) THEN NextPos(srcs, rules, k + 1, 0)
    ELSE IF ~ShouldFetch(rules, KindSeq[ph]) THEN NextPos(srcs, rules, k, ph + 1)
    ELSE IF srcs[k] \in transports /\ srcs[k] \in connectedIds
         THEN [k |-> k, ph |-> KindSeq[ph]]
         ELSE NextPos(srcs, rules, k + 1, 0)

KindIdx(kind) == CHOOSE j \in 1..Len(KindSeq) : KindSeq[j] = kind

ViewEmpty(rec) ==
    /\ rec.aggregated.tools = <<>>
    /\ rec.aggregated.prompts = <<>>
    /\ rec.aggregated.resources = <<>>

\* The arrays are reset, the routing map is left as it is.
ClearedArraysOnly(rec) ==
    [rec EXCEPT !.aggregated = EmptyView, !.contrib = NoContrib]

\* The four assignments that open aggregateCapabilities().
Cleared(rec) ==
    [rec EXCEPT !.aggregated = EmptyView, !.capabilityMap = EmptyMap,
                !.contrib = NoContrib]

Range(seq) == {seq[j] : j \in 1..Len(seq)}

Srcs(i) == defs[inst[i].vid].sourceServerIds
Rules(i) == defs[inst[i].vid].aggregationRules

\* The variables no step of the runtime writes.
envVars == <<mgmtPort, cfgVars, mcpServers, catalog, registry, disc>>
\* The request-layer variables other than the three the runtime reads.
sseVars == <<messageQueue, messageHandlers, userOnMessageHandler, retryCount,
             starters, flushers, reconnecting, upstreamRecv, req>>

\* The OS lets listen(p) succeed when nothing is bound to p: not the
\* management server, not a listening instance (D: the definitions).
PortFree(D, p) ==
    /\ p # mgmtPort
    /\ \A j \in InstIds : inst[j].httpServer = "listening" => D[inst[j].vid].port # p

\* stop() as far as it runs without waiting: every transport in the session
\* table is closed, the table cleared, the MCP server closed and dropped.
StoppedSessions(rec) ==
    [sid \in SessIds |->
        IF sid \in rec.activeClientTransports
        THEN [sessions[sid] EXCEPT !.open = FALSE]
        ELSE sessions[sid]]

StoppedLogic(rec) ==
    [rec EXCEPT !.activeClientTransports = {}, !.mcpServer = "null",
                !.handlers = {}]

\* vmcpStore[id] is defined when the catch block of addVMCP tests it: the
\* definition was stored before this step, or addVMCP stores it in this one.
Stored(v) == v \in vmcpStore \/ defs[v].status = "none"

\* start() failed, with startVMCP's catch leaving the table entry in place.
StartFailedKeepsEntry(i, rec, D, R) ==
    /\ inst' = [inst EXCEPT ![i] =
                   [StoppedLogic(rec) EXCEPT !.startPc = "failed",
                                             !.auto = FALSE,
                                             !.agg["start"] = IdlePos,
                                             !.httpServer = "null"]]
    /\ sessions' = StoppedSessions(rec)
    /\ defs' = SetStatus(D, rec.vid, "error", rec.auto /\ Stored(rec.vid))
    /\ runningInstances' = R
    /\ UNCHANGED <<lastRoute, lastReply>>

\* start() failed (aggregation threw, or listen reported an error): the
\* catch block awaits stop() and rethrows; startVMCP's catch sets the status
\* to 'error' and deletes the id from runningInstances; when addVMCP
\* awaits this start, its catch assigns the status again with updatedAt if
\* the definition is still stored.  No listener is open on this path, so
\* stop() does not wait.
StartFailed(i, rec, D, R) ==
    /\ inst' = [inst EXCEPT ![i] =
                   [StoppedLogic(rec) EXCEPT !.startPc = "failed",
                                             !.auto = FALSE,
                                             !.agg["start"] = IdlePos,
                                             !.httpServer = "null"]]
    /\ sessions' = StoppedSessions(rec)
    /\ defs' = SetStatus(D, rec.vid, "error", rec.auto /\ Stored(rec.vid))
    /\ runningInstances' = [R EXCEPT ![rec.vid] = 0]
    /\ UNCHANGED <<lastRoute, lastReply>>

\* start() after its aggregation returned: initializeMcpServerLogic()
\* registers the handlers of the non-empty kinds, the HTTP server is created
\* and listen() called; the bind happens in the call, its outcome is
\* reported by a later event.
StartAfterAgg(i, rec, D, R) ==
    IF ViewEmpty(rec)
    THEN StartFailed(i, rec, D, R)
    ELSE /\ inst' = [inst EXCEPT ![i] =
                [rec EXCEPT !.agg["start"] = IdlePos,
                            !.startPc = IF PortFree(D, D[rec.vid].port)
                                        THEN "bound" ELSE "binderr",
                            !.mcpServer = "server",
                            !.handlers = {k \in Kinds : rec.aggregated[k] # <<>>},
                            !.httpServer = IF PortFree(D, D[rec.vid].port)
                                           THEN "listening" ELSE "unbound"]]
         /\ defs' = D
         /\ runningInstances' = R
         /\ UNCHANGED <<sessions, lastRoute, lastReply>>

\* callTool(name, args) after its aggregation: an empty view makes
\* aggregateCapabilities throw; otherwise the tool call goes to
\* capabilityMap.get(name), or throws when there is no entry.
CallAfterAgg(i, rec, D, R) ==
    /\ inst' = [inst EXCEPT ![i] = [rec EXCEPT !.agg["call"] = IdlePos]]
    /\ \E n \in Names :
          lastRoute' = [inst |-> i, method |-> "callTool", id |-> n,
                        target |-> IF ViewEmpty(rec) THEN NoSource
                                   ELSE CapGet(rec.capabilityMap, n)]
    /\ defs' = D
    /\ runningInstances' = R
    /\ UNCHANGED <<sessions, lastReply>>

\* The run of slot sl on instance i goes on to its next await, or returns
\* to its caller.
AggAdvance(i, sl, rec, pos, D, R) ==
    IF pos # EndPos
    THEN /\ inst' = [inst EXCEPT ![i] = [rec EXCEPT !.agg[sl] = pos]]
         /\ defs' = D
         /\ runningInstances' = R
         /\ UNCHANGED <<sessions, lastRoute, lastReply>>
    ELSE IF sl = "start" THEN StartAfterAgg(i, rec, D, R)
                         ELSE CallAfterAgg(i, rec, D, R)

\* await transport.start() resolved.
AggStartOk(i, sl) ==
    /\ inst[i].agg[sl].ph = "start"
    /\ isConnected' = [isConnected EXCEPT ![Srcs(i)[inst[i].agg[sl].k]] = TRUE]
    /\ AggAdvance(i, sl, inst[i],
                  NextPos(Srcs(i), Rules(i), inst[i].agg[sl].k, 1),
                  defs, runningInstances)
    /\ UNCHANGED <<envVars, vmcpStore, transports, connectedIds, sseVars>>

\* await transport.start() rejected: caught, next source.
AggStartFail(i, sl) ==
    /\ inst[i].agg[sl].ph = "start"
    /\ AggAdvance(i, sl, inst[i],
                  NextPos(Srcs(i), Rules(i), inst[i].agg[sl].k + 1, 0),
                  defs, runningInstances)
    /\ UNCHANGED <<envVars, vmcpStore, reqVars>>

\* A list request resolved with the upstream's current list: the entries to
\* add are merged into the array of the kind and the routing map.
Merged(i, sl) ==
    MergeList(inst[i].aggregated[inst[i].agg[sl].ph], inst[i].capabilityMap,
              Srcs(i)[inst[i].agg[sl].k],
              ToAdd(Rules(i), inst[i].agg[sl].ph,
                    catalog[Srcs(i)[inst[i].agg[sl].k]][inst[i].agg[sl].ph]))

AggResponse(i, sl) ==
    /\ inst[i].agg[sl].ph \in Kinds
    /\ LET p == inst[i].agg[sl]
           s == Srcs(i)[p.k]
           add == ToAdd(Rules(i), p.ph, catalog[s][p.ph])
           rec == [inst[i] EXCEPT !.aggregated[p.ph] = Merged(i, sl).arr,
                                  !.capabilityMap = Merged(i, sl).map,
                                  !.contrib[p.ph][s] = @ \cup Range(add)]
       IN AggAdvance(i, sl, rec,
                     NextPos(Srcs(i), Rules(i), p.k, KindIdx(p.ph) + 1),
                     defs, runningInstances)
    /\ UNCHANGED <<envVars, vmcpStore, reqVars>>

\* A list request rejected (timeout, JSON-RPC error, failed POST): caught,
\* the remaining kinds of this source are skipped.
AggRequestFail(i, sl) ==
    /\ inst[i].agg[sl].ph \in Kinds
    /\ AggAdvance(i, sl, inst[i],
                  NextPos(Srcs(i), Rules(i), inst[i].agg[sl].k + 1, 0),
                  defs, runningInstances)
    /\ UNCHANGED <<envVars, vmcpStore, reqVars>>

\* ------------------------------------------------------------------------
\* VMCPManager
\* ------------------------------------------------------------------------
isPortInUse(port) ==
    \/ port = MainServerPort
    \/ \E v \in vmcpStore : defs[v].port = port

\* validateSourceServers does not throw.
ServerNames(list) == {list[j].name : j \in 1..Len(list)}

validateSourceServers(srcs) ==
    \A j \in 1..Len(srcs) : srcs[j] \in ServerNames(mcpServers)

\* randomUUID(), and the next VMCPInstance object.
FreshId == CHOOSE v \in VIds :
               defs[v].status = "none" /\ \A w \in 1..(v - 1) : defs[w].status # "none"
FreshInst == CHOOSE i \in InstIds :
                 inst[i].vid = 0 /\ \A j \in 1..(i - 1) : inst[j].vid # 0

\* startVMCP from `new VMCPInstance` on: the instance is entered in
\* runningInstances and start() runs up to its first await.  The stop()
\* that opens start() finds nothing to close on a new instance.
BeginStart(v, D, auto) ==
    AggAdvance(FreshInst, "start",
               [NoInst EXCEPT !.vid = v, !.startPc = "agg", !.auto = auto],
               NextPos(D[v].sourceServerIds, D[v].aggregationRules, 1, 0),
               D, [runningInstances EXCEPT ![v] = FreshInst])

addVMCP(port, srcs, rules) ==
    /\ \E v \in VIds : defs[v].status = "none"
    /\ \E i \in InstIds : inst[i].vid = 0
    /\ port # 0 /\ Len(srcs) > 0
    /\ ~isPortInUse(port)
    /\ validateSourceServers(srcs)
    /\ vmcpStore' = vmcpStore \cup {FreshId}
    /\ BeginStart(FreshId,
                  [defs EXCEPT ![FreshId] =
                      [port |-> port, sourceServerIds |-> srcs,
                       aggregationRules |-> rules, status |-> "starting",
                       updatedAt |-> "current"]],
                  TRUE)
    /\ UNCHANGED <<envVars, reqVars>>

startVMCP(v) ==
    /\ v \in vmcpStore
    /\ runningInstances[v] = 0
    /\ \E i \in InstIds : inst[i].vid = 0
    /\ BeginStart(v, SetStatus(defs, v, "starting", TRUE), FALSE)
    /\ UNCHANGED <<envVars, vmcpStore, reqVars>>

\* The listen callback: start() returns and startVMCP sets 'running'.
StartListening(i) ==
    /\ inst[i].startPc = "bound"
    /\ inst' = [inst EXCEPT ![i].startPc = "done", ![i].auto = FALSE]
    /\ defs' = SetStatus(defs, inst[i].vid, "running", FALSE)
    /\ UNCHANGED <<envVars, vmcpStore, runningInstances, sessions, lastRoute, lastReply,
                   reqVars>>

\* The 'error' event of the HTTP server: httpServer.close(), reject.
StartBindError(i) ==
    /\ inst[i].startPc = "binderr"
    /\ StartFailed(i, inst[i], defs, runningInstances)
    /\ UNCHANGED <<envVars, vmcpStore, reqVars>>

\* What stopVMCP does once instance.stop() has returned (status, and
\* updatedAt in the finally block), or when it found no instance (status
\* only), followed for removeVMCP by the delete from the store.
AfterStop(v, how, stamp) ==
    /\ defs' = SetStatus(defs, v, "stopped", stamp)
    /\ runningInstances' = [runningInstances EXCEPT ![v] = 0]
    /\ vmcpStore' = IF how = "remove" THEN vmcpStore \ {v} ELSE vmcpStore

\* start() of the instance is suspended in an await.
InStart(rec) == rec.startPc \in {"agg", "bound", "binderr"}

\* stopVMCP(id) up to its first real wait.  stop() waits only for the
\* close callback of a listening HTTP server; close() on a server that is
\* not listening calls back with an error at once.
StopThen(v, how) ==
    IF runningInstances[v] = 0
    THEN /\ AfterStop(v, how, FALSE)
         /\ UNCHANGED <<inst, sessions>>
    ELSE LET i == runningInstances[v] IN
         /\ sessions' = StoppedSessions(inst[i])
         /\ IF inst[i].httpServer = "listening"
            THEN /\ inst' = [inst EXCEPT ![i] =
                       [StoppedLogic(inst[i]) EXCEPT
                            !.httpServer = "closing",
                            !.stopWait = how,
                            !.stopDuringStart = @ \/ InStart(inst[i])]]
                 /\ UNCHANGED <<defs, runningInstances, vmcpStore>>
            ELSE /\ inst' = [inst EXCEPT ![i] =
                       [StoppedLogic(inst[i]) EXCEPT
                            !.httpServer = "null",
                            !.stopDuringStart = @ \/ InStart(inst[i]),
                            !.stopDone = TRUE]]
                 /\ AfterStop(v, how, TRUE)

stopVMCP(v) ==
    /\ v \in vmcpStore
    /\ StopThen(v, "stop")
    /\ UNCHANGED <<envVars, lastRoute, lastReply, reqVars>>

removeVMCP(v) ==
    /\ v \in vmcpStore
    /\ StopThen(v, "remove")
    /\ UNCHANGED <<envVars, lastRoute, lastReply, reqVars>>

\* The close callback of the HTTP server, which Node calls when the last
\* connection of the server has ended: stop() returns to stopVMCP.
StopHttpClosed(i) ==
    /\ inst[i].stopWait # "none"
    /\ \A sid \in SessIds : sessions[sid].inst = i => ~sessions[sid].open
    /\ inst' = [inst EXCEPT ![i].httpServer = "null", ![i].stopWait = "none",
                            ![i].stopDone = TRUE]
    /\ AfterStop(inst[i].vid, inst[i].stopWait, TRUE)
    /\ UNCHANGED <<envVars, sessions, lastRoute, lastReply, reqVars>>

\* ------------------------------------------------------------------------
\* VMCPInstance: client sessions and routing
\* ------------------------------------------------------------------------
FreshSession == CHOOSE sid \in SessIds :
                    sessions[sid].inst = 0
                    /\ \A t \in 1..(sid - 1) : sessions[t].inst # 0

\* GET /sse on the listener of instance i, answered 500 while there is no
\* MCP server: the new transport is entered in the session table.
SessionConnect(i) ==
    /\ inst[i].httpServer = "listening"
    /\ inst[i].mcpServer # "null"
    /\ \E sid \in SessIds : sessions[sid].inst = 0
    /\ sessions' = [sessions EXCEPT ![FreshSession] = [inst |-> i, open |-> TRUE]]
    /\ inst' = [inst EXCEPT ![i].activeClientTransports = @ \cup {FreshSession}]
    /\ UNCHANGED <<envVars, vmcpStore, defs, runningInstances, lastRoute, lastReply,
                   reqVars>>

\* The client ends its stream; transport.onclose deletes the table entry.
SessionClose(sid) ==
    /\ sessions[sid].open
    /\ sessions' = [sessions EXCEPT ![sid].open = FALSE]
    /\ inst' = [inst EXCEPT ![sessions[sid].inst].activeClientTransports = @ \ {sid}]
    /\ UNCHANGED <<envVars, vmcpStore, defs, runningInstances, lastRoute, lastReply,
                   reqVars>>

\* transport.onerror deletes the table entry; the stream is left as it is.
SessionError(sid) ==
    /\ sessions[sid].open
    /\ sid \in inst[sessions[sid].inst].activeClientTransports
    /\ inst' = [inst EXCEPT ![sessions[sid].inst].activeClientTransports = @ \ {sid}]
    /\ UNCHANGED <<envVars, vmcpStore, defs, runningInstances, sessions,
                   lastRoute, lastReply, reqVars>>

\* The transport the MCP server of instance i writes its responses to.
\* handleHttpRequest connects the one Server object of the instance to the
\* transport of every new session; a Server holds the transport of its
\* latest connect (0: it was never connected).
ServerTransport(i) ==
    IF \E sid \in SessIds : sessions[sid].inst = i
    THEN CHOOSE sid \in SessIds :
             /\ sessions[sid].inst = i
             /\ \A t \in SessIds : sessions[t].inst = i => t <= sid
    ELSE 0

\* POST /message?sessionId=sid with a list request of a kind that has a
\* handler: the transport found in the table hands the message to the
\* Server, the handler returns the aggregated array, and the Server
\* writes the response to its transport.
ListRequest(i, sid, kind) ==
    /\ sid \in inst[i].activeClientTransports
    /\ inst[i].mcpServer # "null"
    /\ kind \in inst[i].handlers
    /\ lastReply' = [inst |-> i, from |-> sid, on |-> ServerTransport(i)]
    /\ UNCHANGED <<envVars, vmcpStore, defs, runningInstances, inst, sessions,
                   lastRoute, reqVars>>

\* proxyRequest's choice of the target: the routing-map entry of the
\* identifier, else for resources/get the host of an mcp:// URI that names
\* a source of the definition, else none (MethodNotFound).
Route(rec, srcs, method, id) ==
    IF CapGet(rec.capabilityMap, id) # NoSource
    THEN CapGet(rec.capabilityMap, id)
    ELSE IF method = "resources/get" /\ UriHost(id) \in Range(srcs)
         THEN UriHost(id)
         ELSE NoSource

\* POST /message of a session in the table: the handler registered for the
\* kind calls proxyRequest.
ProxyRequest(i, kind, id) ==
    /\ inst[i].activeClientTransports # {}
    /\ inst[i].mcpServer # "null"
    /\ kind \in inst[i].handlers
    /\ lastRoute' = [inst |-> i, method |-> MethodOf[kind], id |-> id,
                     target |-> Route(inst[i], Srcs(i), MethodOf[kind], id)]
    /\ UNCHANGED <<envVars, vmcpStore, defs, runningInstances, inst, sessions,
                   lastReply, reqVars>>

\* POST /message of a session in the table with a request of a kind for
\* which initializeMcpServerLogic registered no handler: proxyRequest is
\* not reached, and the MCP server answers MethodNotFound by itself.
RequestNoHandler(i, kind, id) ==
    /\ inst[i].activeClientTransports # {}
    /\ inst[i].mcpServer # "null"
    /\ kind \notin inst[i].handlers
    /\ lastRoute' = [inst |-> i, method |-> MethodOf[kind], id |-> id,
                     target |-> NoSource]
    /\ UNCHANGED <<envVars, vmcpStore, defs, runningInstances, inst, sessions,
                   lastReply, reqVars>>

\* POST /message of a session in the table, with the proxied request
\* followed into TransportManager.request when its target is Upstream.
ProxyCall(i, kind, id, r, mid) ==
    /\ inst[i].activeClientTransports # {}
    /\ inst[i].mcpServer # "null"
    /\ kind \in inst[i].handlers
    /\ LET t == Route(inst[i], Srcs(i), MethodOf[kind], id) IN
       /\ lastRoute' = [inst |-> i, method |-> MethodOf[kind], id |-> id,
                        target |-> t]
       /\ IF t = Upstream THEN TMRequest(r, mid) ELSE UNCHANGED reqVars
    /\ UNCHANGED <<envVars, vmcpStore, defs, runningInstances, inst, sessions,
                   lastReply>>

\* POST /mcp-servers/:serverId/tools/execute for a vMCP id: callTool() on
\* the instance in runningInstances, which aggregates again first.
callTool(i) ==
    /\ \E v \in vmcpStore : runningInstances[v] = i
    /\ inst[i].agg["call"] = IdlePos
    /\ AggAdvance(i, "call", Cleared(inst[i]),
                  NextPos(Srcs(i), Rules(i), 1, 0), defs, runningInstances)
    /\ UNCHANGED <<envVars, vmcpStore, reqVars>>

\* ------------------------------------------------------------------------
\* VMCPInstance.checkHealth
\* ------------------------------------------------------------------------
\* addVMCP stores underlyingServersStatus: [] and nothing assigns the field
\* afterwards.
underlyingServersStatus(v) == <<>>

\* No call yet.  In a call: the definition, the position k in
\* sourceServerIds of the probe awaited (0: returned), the health object
\* built so far, and the sources whose probe has thrown.
NoHealth == [vid |-> 0, k |-> 0, healthy |-> FALSE, underlyingServers |-> <<>>,
             failed |-> {}]

\* underlyingServers.map(s => s.serverId === serverId
\*                             ? {...s, status: 'error', lastError} : s)
RECURSIVE MarkError(_, _)
MarkError(list, s) ==
    IF list = <<>> THEN <<>>
    ELSE <<IF Head(list).serverId = s
           THEN [Head(list) EXCEPT !.status = "error", !.lastError = "message"]
           ELSE Head(list)>> \o MarkError(Tail(list), s)

\* GET /vmcp-servers/:id/health: checkHealth() of an instance built over
\* the stored definition, up to the await of the first probe.
checkHealth(v) ==
    /\ v \in vmcpStore
    /\ health.k = 0
    /\ health' = [vid |-> v, k |-> 1,
                  healthy |-> (defs[v].status = "running"),
                  underlyingServers |-> underlyingServersStatus(v),
                  failed |-> {}]
    /\ UNCHANGED <<held, wired, lastOp, creates, deleting, refresh, toggle, vmCore, reqVars>>

\* The loop goes on to the next source, or checkHealth returns.
HealthNext(h) ==
    [h EXCEPT !.k = IF h.k < Len(defs[h.vid].sourceServerIds)
                    THEN h.k + 1 ELSE 0]

\* The health/check request of the probe resolved.
ProbeOk ==
    /\ health.k # 0
    /\ defs[health.vid].sourceServerIds[health.k]
          \in transports \cap connectedIds
    /\ health' = HealthNext(health)
    /\ UNCHANGED <<held, wired, lastOp, creates, deleting, refresh, toggle, vmCore, reqVars>>

\* The request threw (no transport, not connected, send failure or
\* timeout): the catch block of the loop.
ProbeFail ==
    /\ health.k # 0
    /\ LET s == defs[health.vid].sourceServerIds[health.k] IN
       health' = HealthNext([health EXCEPT
                     !.healthy = FALSE,
                     !.underlyingServers = MarkError(@, s),
                     !.failed = @ \cup {s}])
    /\ UNCHANGED <<held, wired, lastOp, creates, deleting, refresh, toggle, vmCore, reqVars>>

\* ------------------------------------------------------------------------
\* Upstreams as the runtime sees them
\* ------------------------------------------------------------------------
UpstreamChange(s, kind, list) ==
    /\ catalog[s][kind] # list
    /\ catalog' = [catalog EXCEPT ![s][kind] = list]
    /\ UNCHANGED <<mgmtPort, cfgVars, mcpServers, vmcpStore, defs, runningInstances,
                   inst, sessions, lastRoute, lastReply, registry, disc, reqVars>>

\* TransportManager.addTransport for a new transport of s.
SourceRegistered(s) ==
    /\ s \notin transports
    /\ transports' = transports \cup {s}
    /\ UNCHANGED <<connectedIds, isConnected, sseVars, vmVars>>

\* TransportManager.connect(s) after its start() resolved.
SourceConnected(s) ==
    /\ s \in transports
    /\ s \notin connectedIds
    /\ connectedIds' = connectedIds \cup {s}
    /\ isConnected' = [isConnected EXCEPT ![s] = TRUE]
    /\ UNCHANGED <<transports, sseVars, vmVars>>

\* The SSE stream of s reports an error: isConnected = false.
SourceError(s) ==
    /\ isConnected[s]
    /\ isConnected' = [isConnected EXCEPT ![s] = FALSE]
    /\ UNCHANGED <<transports, connectedIds, sseVars, vmVars>>

\* The transport of s closes under the handlers addTransport installed,
\* or the operator disconnects s: the transport is removed.
SourceClosed(s) ==
    /\ s \in transports
    /\ transports' = transports \ {s}
    /\ connectedIds' = connectedIds \ {s}
    /\ isConnected' = [isConnected EXCEPT ![s] = FALSE]
    /\ UNCHANGED <<sseVars, vmVars>>

\* ------------------------------------------------------------------------
\* Transport table by name: addTransport, connect, handlers, disconnect
\* ------------------------------------------------------------------------
\* The SSETransport objects constructed in one behaviour.
Objs == 1..MaxObj

NoOp == [op |-> "none", name |-> "none"]

\* The url of the configuration entry of each upstream.
UrlOf == [U1 |-> "http://u1", U2 |-> "http://u2"]

\* The configuration the server was started with.
Configured == <<[name |-> "U1", url |-> UrlOf["U1"], status |-> "online",
                 isDisabled |-> FALSE],
                [name |-> "U2", url |-> UrlOf["U2"], status |-> "online",
                 isDisabled |-> FALSE]>>

\* mcpServers.map(s => s.name === name ? { ...s, status } : s)
MarkStatus(list, name, st) ==
    [j \in 1..Len(list) |->
        IF list[j].name = name THEN [list[j] EXCEPT !.status = st] ELSE list[j]]

vmRest == <<mgmtPort, catalog, vmcpStore, defs, runningInstances, inst,
            sessions, lastRoute, lastReply, registry, disc>>

\* TransportManager.removeTransport(serverId)
removeTransport(s) ==
    /\ transports' = transports \ {s}
    /\ connectedIds' = connectedIds \ {s}
    /\ held' = [held EXCEPT ![s] = 0]

\* TransportManager.addTransport(serverId, transport) with a transport
\* just constructed: transports.set(serverId, transport), and the
\* manager's onclose and onerror are assigned to it.
addTransport(s, t) ==
    /\ t \in Objs
    /\ \A n \in Sources : held[n] # t
    /\ transports' = transports \cup {s}
    /\ held' = [held EXCEPT ![s] = t]
    /\ wired' = [wired EXCEPT ![s] = "manager"]
    /\ isConnected' = [isConnected EXCEPT ![s] = FALSE]
    /\ lastOp' = [op |-> "add", name |-> s]
    /\ UNCHANGED <<connectedIds, sseVars, vmCore, opVars>>

\* TransportManager.connect(serverId) for a name not in connectedIds, with
\* the start() of the stored transport resolving.
connect(s) ==
    /\ s \in transports
    /\ s \notin connectedIds
    /\ connectedIds' = connectedIds \cup {s}
    /\ isConnected' = [isConnected EXCEPT ![s] = TRUE]
    /\ lastOp' = [op |-> "connect", name |-> s]
    /\ UNCHANGED <<transports, held, wired, sseVars, vmCore, opVars>>

\* The code that called connect() assigns transport.onerror and
\* transport.onclose when connect() has returned.
SetupHandlers(s) ==
    /\ s \in transports
    /\ s \in connectedIds
    /\ wired[s] = "manager"
    /\ wired' = [wired EXCEPT ![s] = "setup"]
    /\ lastOp' = [op |-> "handlers", name |-> s]
    /\ UNCHANGED <<transports, connectedIds, isConnected, held, sseVars,
                   vmCore, opVars>>

\* The stream of the stored transport closes: isConnected = false, then
\* the onclose the transport carries runs.  The manager's removes the
\* transport; the setup code's marks the configuration entry offline.
OnClose(s) ==
    /\ s \in transports
    /\ isConnected[s]
    /\ isConnected' = [isConnected EXCEPT ![s] = FALSE]
    /\ IF wired[s] = "manager"
       THEN removeTransport(s) /\ UNCHANGED mcpServers
       ELSE /\ mcpServers' = MarkStatus(mcpServers, s, "offline")
            /\ UNCHANGED <<transports, connectedIds, held>>
    /\ lastOp' = [op |-> "close", name |-> s]
    /\ UNCHANGED <<wired, sseVars, vmRest, opVars>>

\* The stream reports a retryable error: isConnected = false; neither
\* onerror removes the transport; the setup code's marks the entry error.
OnError(s) ==
    /\ s \in transports
    /\ isConnected[s]
    /\ isConnected' = [isConnected EXCEPT ![s] = FALSE]
    /\ mcpServers' = IF wired[s] = "manager" THEN mcpServers
                     ELSE MarkStatus(mcpServers, s, "error")
    /\ lastOp' = [op |-> "error", name |-> s]
    /\ UNCHANGED <<transports, connectedIds, held, wired, sseVars, vmRest, opVars>>

\* TransportManager.disconnect(serverId): close(), then removeTransport.
disconnect(s) ==
    /\ s \in transports
    /\ isConnected' = [isConnected EXCEPT ![s] = FALSE]
    /\ removeTransport(s)
    /\ lastOp' = [op |-> "disconnect", name |-> s]
    /\ UNCHANGED <<wired, sseVars, vmCore, opVars>>

\* ------------------------------------------------------------------------
\* CapabilityDiscoverer and CapabilityRegistry
\* ------------------------------------------------------------------------
\* The list requests discoverCapabilities issues, in order.
DiscKinds == <<"tools", "prompts">>

\* The CapabilityError a failed list call is turned into.
ErrOf == [tools |-> "tools_discovery_failed",
          prompts |-> "prompts_discovery_failed"]

\* No run yet: position, outcome of the last run, list requests the run
\* has issued and the lists they returned.
NoDisc == [pc |-> "idle", outcome |-> "none", asked |-> {},
           got |-> [k \in Kinds |-> <<>>]]

EmptyRegistry == [s \in Sources |-> [k \in Kinds |-> {}]]

\* registerTool / registerPrompt for the first n records of a list:
\* serverTools.set(name, record) in the map of the record's source.
Register(reg, s, k, list, n) ==
    [reg EXCEPT ![s][k] = @ \cup {list[j] : j \in 1..n}]

\* getToolsForServer / getPromptsForServer / getResourcesForServer
getForServer(s, k) == registry[s][k]

\* discoverCapabilities(serverId) up to its first await.
discoverCapabilities(s) ==
    /\ disc[s].pc = "idle"
    /\ disc' = [disc EXCEPT ![s] =
           IF s \notin transports
           THEN [NoDisc EXCEPT !.outcome = "server_not_found"]
           ELSE IF ~isConnected[s]
           THEN [NoDisc EXCEPT !.pc = "start"]
           ELSE [NoDisc EXCEPT !.pc = "tools", !.asked = {"tools"}]]
    /\ UNCHANGED <<mgmtPort, cfgVars, mcpServers, catalog, vmcpStore, defs,
                   runningInstances, inst, sessions, lastRoute, lastReply, registry,
                   reqVars>>

\* await transport.start() resolved: tools/list is sent.
DiscStartOk(s) ==
    /\ disc[s].pc = "start"
    /\ isConnected' = [isConnected EXCEPT ![s] = TRUE]
    /\ disc' = [disc EXCEPT ![s].pc = "tools", ![s].asked = {"tools"}]
    /\ UNCHANGED <<mgmtPort, cfgVars, mcpServers, catalog, vmcpStore, defs,
                   runningInstances, inst, sessions, lastRoute, lastReply, registry,
                   transports, connectedIds, sseVars>>

\* await transport.start() rejected: CapabilityError.discoveryFailed.
DiscStartFail(s) ==
    /\ disc[s].pc = "start"
    /\ disc' = [disc EXCEPT ![s].pc = "idle",
                            ![s].outcome = "discovery_failed"]
    /\ UNCHANGED <<mgmtPort, cfgVars, mcpServers, catalog, vmcpStore, defs,
                   runningInstances, inst, sessions, lastRoute, lastReply, registry,
                   reqVars>>

\* A list call failed, with the registry rolled back to empty for s.
DiscFailedRollback(s, reg) ==
    /\ disc' = [disc EXCEPT ![s].pc = "idle",
                            ![s].outcome = ErrOf[disc[s].pc]]
    /\ registry' = [reg EXCEPT ![s] = [k \in Kinds |-> {}]]

\* The catch block of discoverTools / discoverPrompts: the error of the
\* kind is thrown and discoverCapabilities rethrows it; what was
\* registered stays.
DiscFailed(s, reg) ==
    /\ disc' = [disc EXCEPT ![s].pc = "idle",
                            ![s].outcome = ErrOf[disc[s].pc]]
    /\ registry' = reg

\* The response to the list request of the run arrives with the list the
\* upstream offers now.  Its records are registered in order; the record
\* after the first n fails the schema check (n = Len(list): none does).
DiscResponse(s, n) ==
    /\ disc[s].pc \in Range(DiscKinds)
    /\ LET k == disc[s].pc
           list == catalog[s][k]
           reg == Register(registry, s, k, list, n)
       IN /\ n \in 0..Len(list)
          /\ IF n < Len(list)
             THEN DiscFailed(s, reg)
             ELSE /\ registry' = reg
                  /\ disc' = [disc EXCEPT
                        ![s].got[k] = list,
                        ![s].pc = IF k = "tools" THEN "prompts" ELSE "idle",
                        ![s].asked = IF k = "tools" THEN @ \cup {"prompts"}
                                     ELSE @,
                        ![s].outcome = IF k = "tools" THEN "none" ELSE "ok"]
    /\ UNCHANGED <<mgmtPort, cfgVars, mcpServers, catalog, vmcpStore, defs,
                   runningInstances, inst, sessions, lastRoute, lastReply, reqVars>>

\* The list request of the run fails: timeout, send failure, an error
\* response or a result without the expected array.
DiscRequestFail(s) ==
    /\ disc[s].pc \in Range(DiscKinds)
    /\ DiscFailed(s, registry)
    /\ UNCHANGED <<mgmtPort, cfgVars, mcpServers, catalog, vmcpStore, defs,
                   runningInstances, inst, sessions, lastRoute, lastReply, reqVars>>

\* ------------------------------------------------------------------------
\* Upstream configuration: POST /mcp-servers, DELETE /mcp-servers/:serverId
\* ------------------------------------------------------------------------
CreateIdx == 1..MaxCreate
Urls == {UrlOf[n] : n \in Sources}

\* A request slot: where its handler stands, and the body it was sent with.
NoCreate == [pc |-> "idle", name |-> "none", url |-> "none", code |-> 0]
NoDelete == [pc |-> "idle", name |-> "none", snapshot |-> <<>>, code |-> 0]
Deleted(code) == [NoDelete EXCEPT !.code = code]

\* The handler has answered with the status code; the slot is free.
Answered(code) == [NoCreate EXCEPT !.code = code]

\* The transport object the next `new SSETransport` yields.
FreshObj == CHOOSE t \in Objs \cup {0} :
                /\ \A n \in Sources : t # 0 => held[n] # t
                /\ \A u \in 1..(t - 1) : \E n \in Sources : held[n] = u
                /\ t = 0 => \A u \in Objs : \E n \in Sources : held[n] = u

\* currentConfig.mcpServers.find(s => s.name === name || s.url === url)
existingServer(list, name, url) ==
    \E j \in 1..Len(list) : list[j].name = name \/ list[j].url = url

\* findIndex(s => s.name === serverId), 0 for -1.
findIndex(list, name) ==
    IF name \in ServerNames(list)
    THEN CHOOSE j \in 1..Len(list) :
             list[j].name = name /\ \A m \in 1..(j - 1) : list[m].name # name
    ELSE 0

\* updatedServers.splice(serverIndex, 1)
Splice(list, j) == SubSeq(list, 1, j - 1) \o SubSeq(list, j + 1, Len(list))

\* POST /mcp-servers up to its first await: the duplicate check answers
\* 400; otherwise a transport is constructed and added under the name, and
\* the handler awaits transportManager.connect(name).
CreateBegin(c, name, url, t) ==
    /\ creates[c].pc = "idle"
    /\ IF existingServer(mcpServers, name, url)
       THEN /\ creates' = [creates EXCEPT ![c] = Answered(400)]
            /\ UNCHANGED <<transports, held, wired, isConnected, lastOp>>
       ELSE /\ creates' = [creates EXCEPT ![c] =
                   [pc |-> "connect", name |-> name, url |-> url, code |-> 0]]
            /\ t \in Objs
            /\ \A n \in Sources : held[n] # t
            /\ transports' = transports \cup {name}
            /\ held' = [held EXCEPT ![name] = t]
            /\ wired' = [wired EXCEPT ![name] = "manager"]
            /\ isConnected' = [isConnected EXCEPT ![name] = FALSE]
            /\ lastOp' = [op |-> "add", name |-> name]
    /\ UNCHANGED <<connectedIds, sseVars, vmCore, health, refresh, toggle, deleting>>

\* connect() returned (start() resolved, or the name was in connectedIds
\* already): the handlers are assigned and discoverCapabilities awaited.
CreateConnected(c) ==
    /\ creates[c].pc = "connect"
    /\ creates[c].name \in transports
    /\ LET n == creates[c].name IN
       /\ connectedIds' = connectedIds \cup {n}
       /\ isConnected' = [isConnected EXCEPT ![n] = TRUE]
       /\ wired' = [wired EXCEPT ![n] = "setup"]
       /\ lastOp' = [op |-> "connect", name |-> n]
    /\ creates' = [creates EXCEPT ![c].pc = "discover"]
    /\ UNCHANGED <<transports, held, sseVars, vmCore, health, refresh, toggle, deleting>>

\* connect() or discoverCapabilities() threw: the catch block removes the
\* transport stored under the name and answers 500.
CreateFailed(c) ==
    /\ creates[c].pc \in {"connect", "discover"}
    /\ removeTransport(creates[c].name)
    /\ lastOp' = [op |-> "remove", name |-> creates[c].name]
    /\ creates' = [creates EXCEPT ![c] = Answered(500)]
    /\ UNCHANGED <<isConnected, wired, sseVars, vmCore, health, refresh, toggle, deleting>>

\* discoverCapabilities() returned, having registered the tools and
\* prompts the upstream lists: the entry is appended to the configuration
\* as it is now, and the answer is 201.
CreateDiscovered(c) ==
    /\ creates[c].pc = "discover"
    /\ creates[c].name \in transports
    /\ LET n == creates[c].name IN
       /\ registry' = Register(Register(registry, n, "tools",
                                        catalog[n]["tools"],
                                        Len(catalog[n]["tools"])),
                               n, "prompts", catalog[n]["prompts"],
                               Len(catalog[n]["prompts"]))
       /\ mcpServers' = Append(mcpServers,
                               [name |-> n, url |-> creates[c].url,
                                status |-> "online", isDisabled |-> FALSE])
    /\ creates' = [creates EXCEPT ![c] = Answered(201)]
    /\ UNCHANGED <<held, wired, lastOp, health, refresh, toggle, deleting, mgmtPort, catalog,
                   vmcpStore, defs, runningInstances, inst, sessions,
                   lastRoute, lastReply, disc, reqVars>>

\* DELETE /mcp-servers/:serverId up to its first await: 404 for a name the
\* configuration does not hold; otherwise the handler keeps the
\* configuration it read and awaits transportManager.disconnect.
DeleteBegin(name) ==
    /\ deleting.pc = "idle"
    /\ deleting' = IF findIndex(mcpServers, name) = 0
                   THEN Deleted(404)
                   ELSE [pc |-> "disconnect", name |-> name,
                         snapshot |-> mcpServers, code |-> 0]
    /\ UNCHANGED <<held, wired, lastOp, health, refresh, toggle, creates, vmCore, reqVars>>

\* disconnect() returned (close(), then removeTransport): the entry is
\* spliced out of the configuration read at the start, which becomes the
\* configuration; the answer is 204.  No definition of a virtual server is
\* looked at.
DeleteFinish ==
    /\ deleting.pc = "disconnect"
    /\ removeTransport(deleting.name)
    /\ isConnected' = [isConnected EXCEPT ![deleting.name] = FALSE]
    /\ lastOp' = [op |-> "disconnect", name |-> deleting.name]
    /\ mcpServers' = Splice(deleting.snapshot,
                            findIndex(deleting.snapshot, deleting.name))
    /\ deleting' = Deleted(204)
    /\ UNCHANGED <<wired, health, refresh, toggle, creates, sseVars, mgmtPort, catalog,
                   vmcpStore, defs, runningInstances, inst, sessions,
                   lastRoute, lastReply, registry, disc>>

\* ------------------------------------------------------------------------
\* PUT /mcp-servers/:serverId/connection
\* ------------------------------------------------------------------------
\* The request slot: where the handler stands, its body, the configuration
\* it read at its start (currentConfig) and, once answered, the status
\* code and why a connect did not succeed.
NoToggle == [pc |-> "idle", name |-> "none", isDisabled |-> FALSE,
             snapshot |-> <<>>, cause |-> "none", code |-> 0]

Toggled(name, dis, code, cause) ==
    [NoToggle EXCEPT !.name = name, !.isDisabled = dis, !.code = code,
                     !.cause = cause]

Awaiting(pc, name, dis) ==
    [NoToggle EXCEPT !.pc = pc, !.name = name, !.isDisabled = dis,
                     !.snapshot = mcpServers]

\* updatedServers[serverIndex] = {...serverToUpdate, isDisabled, status}
WriteBack(list, name, dis, st) ==
    [list EXCEPT ![findIndex(list, name)] =
        [@ EXCEPT !.isDisabled = dis, !.status = st]]

\* What no step of the handler writes.
toggleFrame == <<wired, sseVars, health, creates, deleting, refresh, mgmtPort,
                 catalog, vmcpStore, defs, runningInstances, inst, sessions,
                 lastRoute, lastReply, disc>>

\* The handler up to its first await on the network.  404 for a name the
\* configuration does not hold.  Disabling: disconnect() awaits close() of
\* a registered transport, and for an unknown name only deletes it from
\* connectedIds, after which the entry is written.  Enabling: connect()
\* throws for a name without a transport, and the entry is written with
\* status error; it returns at once for a name in connectedIds, after
\* which discoverCapabilities is awaited; otherwise start() is awaited.
ToggleBegin(name, dis) ==
    /\ toggle.pc = "idle"
    /\ IF findIndex(mcpServers, name) = 0
       THEN /\ toggle' = Toggled(name, dis, 404, "none")
            /\ UNCHANGED <<connectedIds, mcpServers>>
       ELSE IF dis
       THEN IF name \in transports
            THEN /\ toggle' = Awaiting("disconnect", name, dis)
                 /\ UNCHANGED <<connectedIds, mcpServers>>
            ELSE /\ connectedIds' = connectedIds \ {name}
                 /\ mcpServers' = WriteBack(mcpServers, name, dis, "offline")
                 /\ toggle' = Toggled(name, dis, 200, "none")
       ELSE IF name \notin transports
            THEN /\ mcpServers' = WriteBack(mcpServers, name, dis, "error")
                 /\ toggle' = Toggled(name, dis, 200, "not_found")
                 /\ UNCHANGED connectedIds
            ELSE /\ toggle' = Awaiting(IF name \in connectedIds THEN "discover"
                                       ELSE "connect", name, dis)
                 /\ UNCHANGED <<connectedIds, mcpServers>>
    /\ UNCHANGED <<transports, isConnected, held, lastOp, registry, toggleFrame>>

\* disconnect() returned (close(), then removeTransport): status offline is
\* written into the entry of the configuration read at the start, which
\* becomes the configuration.
ToggleDisconnected ==
    /\ toggle.pc = "disconnect"
    /\ removeTransport(toggle.name)
    /\ isConnected' = [isConnected EXCEPT ![toggle.name] = FALSE]
    /\ lastOp' = [op |-> "disconnect", name |-> toggle.name]
    /\ mcpServers' = WriteBack(toggle.snapshot, toggle.name, TRUE, "offline")
    /\ toggle' = Toggled(toggle.name, TRUE, 200, "none")
    /\ UNCHANGED <<registry, toggleFrame>>

\* connect(): start() resolved, connectedIds.add(serverId);
\* discoverCapabilities is awaited.
ToggleConnected ==
    /\ toggle.pc = "connect"
    /\ connectedIds' = connectedIds \cup {toggle.name}
    /\ isConnected' = [isConnected EXCEPT ![toggle.name] = TRUE]
    /\ lastOp' = [op |-> "connect", name |-> toggle.name]
    /\ toggle' = [toggle EXCEPT !.pc = "discover"]
    /\ UNCHANGED <<transports, held, mcpServers, registry, toggleFrame>>

\* start() or a list request of the discovery failed (the upstream is not
\* reachable), or the discoverer finds no transport under the name: the
\* catch writes status error.
ToggleFailed ==
    /\ toggle.pc \in {"connect", "discover"}
    /\ mcpServers' = WriteBack(toggle.snapshot, toggle.name, FALSE, "error")
    /\ toggle' = Toggled(toggle.name, FALSE, 200,
                         IF toggle.name \in transports THEN "network"
                         ELSE "not_found")
    /\ UNCHANGED <<transports, connectedIds, isConnected, held, lastOp,
                   registry, toggleFrame>>

\* discoverCapabilities() returned: status online is written.
ToggleDiscovered ==
    /\ toggle.pc = "discover"
    /\ toggle.name \in transports
    /\ LET n == toggle.name IN
       registry' = Register(Register(registry, n, "tools",
                                     catalog[n]["tools"],
                                     Len(catalog[n]["tools"])),
                            n, "prompts", catalog[n]["prompts"],
                            Len(catalog[n]["prompts"]))
    /\ mcpServers' = WriteBack(toggle.snapshot, toggle.name, FALSE, "online")
    /\ toggle' = Toggled(toggle.name, FALSE, 200, "none")
    /\ UNCHANGED <<transports, connectedIds, isConnected, held, lastOp,
                   toggleFrame>>

\* ------------------------------------------------------------------------
\* CapabilityRefreshManager
\* ------------------------------------------------------------------------
\* options.interval ?? 300000, and the intervals updateInterval is called
\* with.
DefaultInterval == 300000
Intervals == {DefaultInterval, DefaultInterval \div 5, DefaultInterval \div 10}

\* refresh() runs of one behaviour that are counted (the count saturates).
MaxCalls == 3

\* The manager after construction.  timers[s] is the interval of the timer
\* stored under s (0: no entry) and order the keys of the Map in insertion
\* order; live[s] counts the setInterval timers of s that were not
\* cleared; calls counts the refresh() runs started; inside updateInterval,
\* todo holds the keys the Map iterator has still to visit.  handle[s]
\* tells the Timeout object of s from the one created before it (every
\* setInterval returns a new object).
NoRefresh == [timers |-> [s \in Sources |-> 0], order |-> <<>>,
              live |-> [s \in Sources |-> 0], interval |-> DefaultInterval,
              handle |-> [s \in Sources |-> 0],
              calls |-> 0, pc |-> "idle", todo |-> <<>>]

Without(seq, k) == SelectSeq(seq, LAMBDA x : x # k)

\* stopRefresh(serverId): clearInterval and timers.delete for a key the Map
\* holds.  A deleted key leaves the iteration order, and so the keys an
\* iterator has still to visit.
StopTimer(R, s) ==
    IF R.timers[s] = 0 THEN R
    ELSE [R EXCEPT !.timers[s] = 0, !.live[s] = @ - 1,
                   !.order = Without(@, s), !.todo = Without(@, s)]

\* startRefresh(serverId): stop a timer the Map holds, run refresh() once,
\* setInterval at options.interval and timers.set.  The key is new to the
\* Map at the set, so it is appended to the iteration order: an iterator
\* that is open on the Map will visit it.
StartTimer(R, s) ==
    LET R1 == StopTimer(R, s)
    IN [R1 EXCEPT !.calls = IF @ < MaxCalls THEN @ + 1 ELSE @,
                  !.live[s] = @ + 1,
                  !.handle[s] = 1 - @,
                  !.timers[s] = R1.interval,
                  !.order = Append(@, s),
                  !.todo = IF R1.pc = "update" THEN Append(@, s) ELSE @]

startRefresh(s) ==
    /\ refresh.pc = "idle"
    /\ refresh' = StartTimer(refresh, s)
    /\ UNCHANGED <<held, wired, lastOp, health, creates, deleting, toggle, vmCore, reqVars>>

stopRefresh(s) ==
    /\ refresh.pc = "idle"
    /\ refresh.timers[s] # 0
    /\ refresh' = StopTimer(refresh, s)
    /\ UNCHANGED <<held, wired, lastOp, health, creates, deleting, toggle, vmCore, reqVars>>

\* updateInterval(interval) up to its loop: the interval is stored and the
\* iterator over this.timers is opened; with no entry the call returns.
updateInterval(iv) ==
    /\ refresh.pc = "idle"
    /\ refresh' = IF refresh.order = <<>>
                  THEN [refresh EXCEPT !.interval = iv]
                  ELSE [refresh EXCEPT !.interval = iv, !.pc = "update",
                                       !.todo = refresh.order]
    /\ UNCHANGED <<held, wired, lastOp, health, creates, deleting, toggle, vmCore, reqVars>>

\* One iteration of the loop of updateInterval: the iterator yields the
\* next key, stopRefresh(key), startRefresh(key); the call returns when the
\* iterator is exhausted.  The loop is synchronous: nothing else runs
\* until it ends.
UpdateIteration ==
    /\ refresh.pc = "update"
    /\ LET k == Head(refresh.todo)
           R == StartTimer(StopTimer([refresh EXCEPT !.todo = Tail(@)], k), k)
       IN refresh' = IF R.todo = <<>> THEN [R EXCEPT !.pc = "idle"] ELSE R
    /\ UNCHANGED <<held, wired, lastOp, health, creates, deleting, toggle, vmCore, reqVars>>

\* ------------------------------------------------------------------------
\* Request layer: specification
\* ------------------------------------------------------------------------
vars == <<reqVars, vmVars>>

IdleReq ==
    /\ messageQueue = <<>>
    /\ messageHandlers = [i \in Ids |-> User]
    /\ userOnMessageHandler = User
    /\ retryCount = 0
    /\ starters = {}
    /\ flushers = {}
    /\ reconnecting = {}
    /\ upstreamRecv = {}
    /\ req = [r \in ReqIdx |-> NoReq]

IdleVM ==
    /\ mcpServers = Configured
    /\ held = [s \in Sources |-> 0]
    /\ wired = [s \in Sources |-> "manager"]
    /\ lastOp = NoOp
    /\ health = NoHealth
    /\ refresh = NoRefresh
    /\ toggle = NoToggle
    /\ creates = [c \in CreateIdx |-> NoCreate]
    /\ deleting = NoDelete
    /\ vmcpStore = {}
    /\ defs = [v \in VIds |-> NoDef]
    /\ runningInstances = [v \in VIds |-> 0]
    /\ inst = [i \in InstIds |-> NoInst]
    /\ sessions = [sid \in SessIds |-> NoSession]
    /\ lastRoute = NoRoute
    /\ lastReply = NoReply
    /\ registry = EmptyRegistry
    /\ disc = [s \in Sources |-> NoDisc]


InitReq ==
    /\ transports = {Upstream}
    /\ connectedIds = {}
    /\ isConnected = [s \in Sources |-> FALSE]
    /\ IdleReq
    /\ mgmtPort = MainServerPort
    /\ catalog = [s \in Sources |-> [k \in Kinds |-> <<>>]]
    /\ IdleVM

ReqStep ==
    \/ \E r \in ReqLow, i \in Ids : TMRequest(r, i)
    \/ \E r \in ReqLow, i \in Ids : DiscRequest(r, i)
    \/ \E r \in ReqLow, i \in Ids : SSERequest(r, i)
    \/ \E r \in ReqIdx, isErr \in BOOLEAN : Deliver(r, isErr)
    \/ \E r \in ReqIdx : TimeoutTM(r)
    \/ \E r \in ReqIdx : TimeoutDisc(r)
    \/ \E r \in ReqIdx : TimeoutSSE(r)
    \/ \E r \in ReqIdx : SendOk(r)
    \/ \E r \in ReqIdx : SendFail(r)
    \/ TMConnect
    \/ \E o \in Origins : StartOk(o)
    \/ \E o \in Origins : StartFail(o)
    \/ \E o \in Origins : FlushStep(o)
    \/ \E o \in Origins : FlushFail(o)
    \/ \E o \in Origins : FlushDone(o)
    \/ SseError
    \/ SseClose
    \/ TMDisconnect
    \/ TMAddTransport

NextReq == ReqStep /\ UNCHANGED vmVars

SpecReq == InitReq /\ [][NextReq]_vars

\* ------------------------------------------------------------------------
\* Virtual-server runtime: specifications
\* ------------------------------------------------------------------------
Ports == {MainServerPort, AltMainPort, VmcpPort}
SrcLists == {<<"U1">>, <<"U1", "U2">>, <<"U2", "U1">>}
UnknownSrcs == <<"U3">>
AllRule == <<[type |-> "aggregate_all", names |-> {}]>>
ToolsRule == <<[type |-> "include_tools", names |-> {"a"}]>>
PromptsRule == <<[type |-> "include_prompts", names |-> {"a"}],
                 [type |-> "include_resources", names |-> {"a"}]>>
RuleSets == {AllRule, ToolsRule, PromptsRule}

\* The lists each upstream may answer a list request with.
Offers ==
    [U1 |-> [tools |-> {<<>>, <<"a">>}, prompts |-> {<<>>, <<"a">>},
             resources |-> {<<>>}],
     U2 |-> [tools |-> {<<"a">>, <<"b", "a">>}, prompts |-> {<<>>},
             resources |-> {<<>>, <<"a">>}]]
Catalogs ==
    {c \in [Sources -> [Kinds -> {<<>>, <<"a">>, <<"b", "a">>}]] :
        \A s \in Sources, k \in Kinds : c[s][k] \in Offers[s][k]}

\* Every configured upstream was registered and connected at startup.
AllConnected ==
    /\ transports = Sources
    /\ connectedIds = Sources
    /\ isConnected = [s \in Sources |-> TRUE]

\* Aggregation and routing: one virtual server on VmcpPort and one client,
\* over upstreams whose lists change.
InitAgg ==
    /\ mgmtPort = MainServerPort
    /\ catalog \in Catalogs
    /\ AllConnected
    /\ IdleReq
    /\ IdleVM

NextAgg ==
    \/ \E srcs \in SrcLists, rules \in RuleSets : addVMCP(VmcpPort, srcs, rules)
    \/ \E i \in InstIds, sl \in Slots : AggResponse(i, sl)
    \/ \E i \in InstIds, sl \in Slots : AggRequestFail(i, sl)
    \/ \E i \in InstIds : StartListening(i)
    \/ \E i \in InstIds : inst[i].activeClientTransports = {} /\ SessionConnect(i)
    \/ \E i \in InstIds, kind \in Kinds : ProxyRequest(i, kind, "a")
    \/ \E i \in InstIds : callTool(i)
    \/ \E s \in Sources, kind \in Kinds :
          \E list \in Offers[s][kind] : UpstreamChange(s, kind, list)

SpecAgg == InitAgg /\ [][NextAgg]_vars

\* The upstreams of the lifecycle specifications: each offers the tool a.
ToolA == [s \in Sources |-> [k \in Kinds |-> IF k = "tools" THEN <<"a">> ELSE <<>>]]

\* Lifecycle: definitions over Upstream are added, started, stopped and
\* removed on any port, clients connect and leave, Upstream's transport
\* fails and comes back.  The management server listens on
\* process.env.PORT || 3000.
InitLife ==
    /\ mgmtPort \in {MainServerPort, AltMainPort}
    /\ catalog = ToolA
    /\ AllConnected
    /\ IdleReq
    /\ IdleVM

NextLife ==
    \/ \E p \in Ports, srcs \in {<<Upstream>>, UnknownSrcs} : addVMCP(p, srcs, AllRule)
    \/ \E v \in VIds : startVMCP(v)
    \/ \E v \in VIds : stopVMCP(v)
    \/ \E v \in VIds : removeVMCP(v)
    \/ \E i \in InstIds, sl \in Slots : AggStartOk(i, sl)
    \/ \E i \in InstIds, sl \in Slots : AggStartFail(i, sl)
    \/ \E i \in InstIds, sl \in Slots : AggResponse(i, sl)
    \/ \E i \in InstIds, sl \in Slots : AggRequestFail(i, sl)
    \/ \E i \in InstIds : StartListening(i)
    \/ \E i \in InstIds : StartBindError(i)
    \/ \E i \in InstIds : StopHttpClosed(i)
    \/ \E i \in InstIds : SessionConnect(i)
    \/ \E sid \in SessIds : SessionClose(sid)
    \/ \E sid \in SessIds : SessionError(sid)
    \/ SourceError(Upstream)
    \/ SourceClosed(Upstream)
    \/ SourceRegistered(Upstream)
    \/ SourceConnected(Upstream)

SpecLife == InitLife /\ [][NextLife]_vars

\* Stopping: one virtual server on VmcpPort.  The steps of the gateway and
\* the settlement of a list request (its timeout at the latest) are bound
\* to happen; what a client or an operator does is not.
InitStop ==
    /\ mgmtPort = MainServerPort
    /\ catalog = ToolA
    /\ AllConnected
    /\ IdleReq
    /\ IdleVM

NextStop ==
    \/ addVMCP(VmcpPort, <<Upstream>>, AllRule)
    \/ \E v \in VIds : startVMCP(v)
    \/ \E v \in VIds : stopVMCP(v)
    \/ \E v \in VIds : removeVMCP(v)
    \/ \E i \in InstIds, sl \in Slots : AggResponse(i, sl)
    \/ \E i \in InstIds, sl \in Slots : AggRequestFail(i, sl)
    \/ \E i \in InstIds : StartListening(i)
    \/ \E i \in InstIds : StartBindError(i)
    \/ \E i \in InstIds : StopHttpClosed(i)
    \/ \E i \in InstIds : SessionConnect(i)
    \/ \E sid \in SessIds : SessionClose(sid)
    \/ \E sid \in SessIds : SessionError(sid)

FairStop ==
    /\ \A i \in InstIds : WF_vars(StartListening(i))
    /\ \A i \in InstIds : WF_vars(StartBindError(i))
    /\ \A i \in InstIds : WF_vars(StopHttpClosed(i))
    /\ \A i \in InstIds, sl \in Slots :
          WF_vars(AggResponse(i, sl) \/ AggRequestFail(i, sl))

SpecStop == InitStop /\ [][NextStop]_vars /\ FairStop

\* Degradation: one virtual server over U1 and U2, which both offer the
\* tool a; a client calls the tool; the transport of Upstream, wired by the
\* server's setup code, closes; U2 is disconnected.  Requests to Upstream
\* go through TransportManager.request and SSETransport.
InitDegrade ==
    /\ mgmtPort = MainServerPort
    /\ catalog = ToolA
    /\ AllConnected
    /\ IdleReq
    /\ IdleVM

NextDegrade ==
    \/ addVMCP(VmcpPort, <<"U1", "U2">>, AllRule)
    \/ \E i \in InstIds, sl \in Slots : AggStartOk(i, sl)
    \/ \E i \in InstIds, sl \in Slots : AggStartFail(i, sl)
    \/ \E i \in InstIds, sl \in Slots : AggResponse(i, sl)
    \/ \E i \in InstIds, sl \in Slots : AggRequestFail(i, sl)
    \/ \E i \in InstIds : StartListening(i)
    \/ \E i \in InstIds : inst[i].activeClientTransports = {} /\ SessionConnect(i)
    \/ \E i \in InstIds, r \in ReqLow, mid \in Ids :
          ProxyCall(i, "tools", "a", r, mid)
    \/ (\E r \in ReqIdx : SendOk(r)) /\ UNCHANGED vmVars
    \/ (\E r \in ReqIdx : Deliver(r, FALSE)) /\ UNCHANGED vmVars
    \/ (\E r \in ReqIdx : TimeoutTM(r)) /\ UNCHANGED vmVars
    \/ StartOk(Bg) /\ UNCHANGED vmVars
    \/ StartFail(Bg) /\ UNCHANGED vmVars
    \/ FlushStep(Bg) /\ UNCHANGED vmVars
    \/ FlushDone(Bg) /\ UNCHANGED vmVars
    \/ SseCloseWired /\ UNCHANGED vmVars
    \/ SourceClosed("U2")

SpecDegrade == InitDegrade /\ [][NextDegrade]_vars

\* The callbacks of the gateway run: the listen callback, the settlement of
\* a list request, the completion of a POST, the outcome of a connection
\* attempt, the queue loop and the request timeout.
FairDegrade ==
    /\ \A i \in InstIds : WF_vars(StartListening(i))
    /\ \A i \in InstIds, sl \in Slots :
          WF_vars(AggStartOk(i, sl) \/ AggStartFail(i, sl))
    /\ \A i \in InstIds, sl \in Slots :
          WF_vars(AggResponse(i, sl) \/ AggRequestFail(i, sl))
    /\ \A r \in ReqIdx : WF_vars(SendOk(r) /\ UNCHANGED vmVars)
    /\ \A r \in ReqIdx : WF_vars(TimeoutTM(r) /\ UNCHANGED vmVars)
    /\ WF_vars((StartOk(Bg) \/ StartFail(Bg)) /\ UNCHANGED vmVars)
    /\ WF_vars((FlushStep(Bg) \/ FlushDone(Bg)) /\ UNCHANGED vmVars)

SpecDegradeFair == SpecDegrade /\ FairDegrade

\* Reconnection: the transport of Upstream after connect() has returned.
\* The stream reports errors; the upstream accepts every new connection
\* attempt; callers issue requests through the manager and on the
\* transport.
InitReconnect ==
    /\ transports = {Upstream}
    /\ connectedIds = {Upstream}
    /\ isConnected = [s \in Sources |-> s = Upstream]
    /\ IdleReq
    /\ mgmtPort = MainServerPort
    /\ catalog = ToolA
    /\ IdleVM

NextReconnect ==
    \/ SseError /\ UNCHANGED vmVars
    \/ (\E r \in ReqLow, i \in Ids : TMRequest(r, i)) /\ UNCHANGED vmVars
    \/ (\E r \in ReqLow, i \in Ids : SSERequest(r, i)) /\ UNCHANGED vmVars
    \/ (\E r \in ReqIdx : Deliver(r, FALSE)) /\ UNCHANGED vmVars
    \/ (\E r \in ReqIdx : TimeoutTM(r)) /\ UNCHANGED vmVars
    \/ (\E r \in ReqIdx : TimeoutSSE(r)) /\ UNCHANGED vmVars
    \/ (\E r \in ReqIdx : SendOk(r)) /\ UNCHANGED vmVars
    \/ (\E o \in Origins : StartOk(o)) /\ UNCHANGED vmVars
    \/ (\E o \in Origins : FlushStep(o)) /\ UNCHANGED vmVars
    \/ (\E o \in Origins : FlushDone(o)) /\ UNCHANGED vmVars

\* Connection attempts, the queue loop, POSTs and timers complete.
FairReconnect ==
    /\ \A o \in Origins : WF_vars(StartOk(o) /\ UNCHANGED vmVars)
    /\ \A o \in Origins :
          WF_vars((FlushStep(o) \/ FlushDone(o)) /\ UNCHANGED vmVars)
    /\ \A r \in ReqIdx : WF_vars(SendOk(r) /\ UNCHANGED vmVars)
    /\ \A r \in ReqIdx :
          WF_vars((TimeoutTM(r) \/ TimeoutSSE(r)) /\ UNCHANGED vmVars)

SpecReconnect == InitReconnect /\ [][NextReconnect]_vars /\ FairReconnect

\* Closing: the same transport and callers, and the operator disconnects
\* the upstream (TransportManager.disconnect, which closes the transport).
NextClose ==
    \/ NextReconnect
    \/ TMDisconnect /\ UNCHANGED vmVars

SpecClose == InitReconnect /\ [][NextClose]_vars

\* Discovery: U1 was registered and connected at startup, U2 is registered
\* and connected later; the lists the upstreams answer with change, streams
\* fail, U2 is disconnected, and discoverCapabilities runs for either.
InitDisc ==
    /\ mgmtPort = MainServerPort
    /\ catalog \in Catalogs
    /\ transports = {Upstream}
    /\ connectedIds = {Upstream}
    /\ isConnected = [s \in Sources |-> s = Upstream]
    /\ IdleReq
    /\ IdleVM

NextDisc ==
    \/ \E s \in Sources : discoverCapabilities(s)
    \/ \E s \in Sources : DiscStartOk(s)
    \/ \E s \in Sources : DiscStartFail(s)
    \/ \E s \in Sources, n \in 0..Cardinality(Names) : DiscResponse(s, n)
    \/ \E s \in Sources : DiscRequestFail(s)
    \/ \E s \in Sources, kind \in Kinds :
          \E list \in Offers[s][kind] : UpstreamChange(s, kind, list)
    \/ \E s \in Sources : SourceError(s)
    \/ \E s \in Sources \ {Upstream} : SourceRegistered(s)
    \/ \E s \in Sources \ {Upstream} : SourceConnected(s)
    \/ \E s \in Sources \ {Upstream} : SourceClosed(s)

SpecDisc == InitDisc /\ [][NextDisc]_vars

\* Definitions that carry two include_tools rules, which the route for
\* POST /vmcp accepts: it checks the type of each rule only.
SplitRules == <<[type |-> "include_tools", names |-> {"a"}],
                [type |-> "include_tools", names |-> {"b"}]>>
SplitRulesRev == <<[type |-> "include_tools", names |-> {"b"}],
                   [type |-> "include_prompts", names |-> {"a"}],
                   [type |-> "include_tools", names |-> {"a"}]>>
ManyRuleSets == {SplitRules, SplitRulesRev, ToolsRule}

\* Rule combination: one virtual server with several rules, over connected
\* upstreams that answer every list request and whose lists change.
InitRules ==
    /\ mgmtPort = MainServerPort
    /\ catalog \in Catalogs
    /\ AllConnected
    /\ IdleReq
    /\ IdleVM

NextRules ==
    \/ \E srcs \in SrcLists, rules \in ManyRuleSets :
          addVMCP(VmcpPort, srcs, rules)
    \/ \E i \in InstIds, sl \in Slots : AggResponse(i, sl)
    \/ \E i \in InstIds : StartListening(i)
    \/ \E i \in InstIds : callTool(i)
    \/ \E s \in Sources, kind \in Kinds :
          \E list \in Offers[s][kind] : UpstreamChange(s, kind, list)

SpecRules == InitRules /\ [][NextRules]_vars

\* The identifiers a client asks for: a name, and a server-scoped uri.
AskedIds == {"a", UriOfU2}

\* Routing of client requests: one virtual server on VmcpPort and one
\* client that sends requests of every kind, over connected upstreams.
InitFallback ==
    /\ mgmtPort = MainServerPort
    /\ catalog \in Catalogs
    /\ AllConnected
    /\ IdleReq
    /\ IdleVM

NextFallback ==
    \/ \E srcs \in SrcLists, rules \in RuleSets : addVMCP(VmcpPort, srcs, rules)
    \/ \E i \in InstIds : AggResponse(i, "start")
    \/ \E i \in InstIds : AggRequestFail(i, "start")
    \/ \E i \in InstIds : StartListening(i)
    \/ \E i \in InstIds : inst[i].activeClientTransports = {} /\ SessionConnect(i)
    \/ \E i \in InstIds, kind \in Kinds, id \in AskedIds :
          ProxyRequest(i, kind, id)
    \/ \E i \in InstIds, kind \in Kinds, id \in AskedIds :
          RequestNoHandler(i, kind, id)

SpecFallback == InitFallback /\ [][NextFallback]_vars

\* The transport table: transports are constructed and added under either
\* name, connected, given the setup code's handlers, closed by the
\* upstream, and disconnected.
InitTable ==
    /\ mgmtPort = MainServerPort
    /\ catalog = ToolA
    /\ transports = {}
    /\ connectedIds = {}
    /\ isConnected = [s \in Sources |-> FALSE]
    /\ IdleReq
    /\ IdleVM

NextTable ==
    \/ \E s \in Sources, t \in Objs : addTransport(s, t)
    \/ \E s \in Sources : connect(s)
    \/ \E s \in Sources : SetupHandlers(s)
    \/ \E s \in Sources : OnClose(s)
    \/ \E s \in Sources : OnError(s)
    \/ \E s \in Sources : disconnect(s)

SpecTable == InitTable /\ [][NextTable]_vars

\* Health checks: a virtual server over two upstreams whose transports
\* close and come back, and health requests for it.
InitHealth ==
    /\ mgmtPort = MainServerPort
    /\ catalog = ToolA
    /\ AllConnected
    /\ IdleReq
    /\ IdleVM

NextHealth ==
    \/ \E srcs \in SrcLists : addVMCP(VmcpPort, srcs, AllRule)
    \/ \E i \in InstIds : AggResponse(i, "start")
    \/ \E i \in InstIds : AggRequestFail(i, "start")
    \/ \E i \in InstIds : StartListening(i)
    \/ \E v \in VIds : stopVMCP(v)
    \/ \E v \in VIds : checkHealth(v)
    \/ ProbeOk
    \/ ProbeFail
    \/ \E s \in Sources : SourceClosed(s)
    \/ \E s \in Sources : SourceRegistered(s)
    \/ \E s \in Sources : SourceConnected(s)

SpecHealth == InitHealth /\ [][NextHealth]_vars

\* The upstream configuration: U1 is configured and connected; upstreams
\* are created and deleted through the management API, two creations at a
\* time.
InitCfg ==
    /\ mgmtPort = MainServerPort
    /\ catalog = ToolA
    /\ transports = {Upstream}
    /\ connectedIds = {Upstream}
    /\ isConnected = [s \in Sources |-> s = Upstream]
    /\ IdleReq
    /\ mcpServers = <<[name |-> Upstream, url |-> UrlOf[Upstream],
                       status |-> "online", isDisabled |-> FALSE]>>
    /\ held = [s \in Sources |-> IF s = Upstream THEN 1 ELSE 0]
    /\ wired = [s \in Sources |-> IF s = Upstream THEN "setup" ELSE "manager"]
    /\ lastOp = NoOp
    /\ health = NoHealth
    /\ refresh = NoRefresh
    /\ toggle = NoToggle
    /\ creates = [c \in CreateIdx |-> NoCreate]
    /\ deleting = NoDelete
    /\ vmcpStore = {}
    /\ defs = [v \in VIds |-> NoDef]
    /\ runningInstances = [v \in VIds |-> 0]
    /\ inst = [i \in InstIds |-> NoInst]
    /\ sessions = [sid \in SessIds |-> NoSession]
    /\ lastRoute = NoRoute
    /\ lastReply = NoReply
    /\ registry = EmptyRegistry
    /\ disc = [s \in Sources |-> NoDisc]

NextCfg ==
    \/ \E c \in CreateIdx, n \in Sources, u \in Urls :
          CreateBegin(c, n, u, FreshObj)
    \/ \E c \in CreateIdx : CreateConnected(c)
    \/ \E c \in CreateIdx : CreateFailed(c)
    \/ \E c \in CreateIdx : CreateDiscovered(c)
    \/ \E n \in Sources : DeleteBegin(n)
    \/ DeleteFinish

SpecCfg == InitCfg /\ [][NextCfg]_vars

\* References from virtual servers to upstreams: upstreams are created and
\* deleted one request at a time while virtual servers are added over the
\* configured upstreams.
NextRefs ==
    \/ \E n \in Sources, u \in Urls : CreateBegin(1, n, u, FreshObj)
    \/ CreateConnected(1)
    \/ CreateFailed(1)
    \/ CreateDiscovered(1)
    \/ \E n \in Sources : DeleteBegin(n)
    \/ DeleteFinish
    \/ \E srcs \in SrcLists : addVMCP(VmcpPort, srcs, ToolsRule)
    \/ \E i \in InstIds : AggResponse(i, "start")
    \/ \E i \in InstIds : AggRequestFail(i, "start")
    \/ \E i \in InstIds : StartListening(i)

SpecRefs == InitCfg /\ [][NextRefs]_vars

\* Queue: the transport of Upstream after connect() has returned; the
\* stream reports errors, callers issue requests through the manager, and
\* the upstream accepts every connection attempt and every POST.
NextQueue ==
    \/ SseError /\ UNCHANGED vmVars
    \/ (\E r \in ReqIdx, i \in Ids : TMRequest(r, i)) /\ UNCHANGED vmVars
    \/ (\E r \in ReqIdx : TimeoutTM(r)) /\ UNCHANGED vmVars
    \/ (\E r \in ReqIdx : SendOk(r)) /\ UNCHANGED vmVars
    \/ (\E o \in Origins : StartOk(o)) /\ UNCHANGED vmVars
    \/ (\E o \in Origins : FlushStep(o)) /\ UNCHANGED vmVars
    \/ (\E o \in Origins : FlushDone(o)) /\ UNCHANGED vmVars

SpecQueue == InitReconnect /\ [][NextQueue]_vars

\* Filtering: one virtual server with aggregate_all or one include rule
\* for a kind, over connected upstreams that answer every list request and
\* whose lists change.
NextInclude ==
    \/ \E srcs \in SrcLists, rules \in RuleSets : addVMCP(VmcpPort, srcs, rules)
    \/ \E i \in InstIds : AggResponse(i, "start")
    \/ \E i \in InstIds : StartListening(i)
    \/ \E s \in Sources, kind \in Kinds :
          \E list \in Offers[s][kind] : UpstreamChange(s, kind, list)

SpecInclude == InitRules /\ [][NextInclude]_vars

\* Date.now() as read by the id minting of one behaviour, and the ids the
\* clients put on their requests (every client numbers its requests from
\* the same start).
Ticks == 1..MaxId
ClientReqIds == {1}

\* `vmcp-proxy-${request.id}-${Date.now()}`: the id of a proxied request is
\* made of the client's request id and the clock; the session is no part
\* of it.
ProxyId(sid, cid, now) == (cid - 1) * MaxId + now

\* Proxied requests: one virtual server over Upstream with several client
\* sessions, each sending one tools/call request (the request of session
\* sid is request sid), proxied through TransportManager.request; the
\* upstream answers or the request times out.
NextIds ==
    \/ addVMCP(VmcpPort, <<"U1">>, AllRule)
    \/ \E i \in InstIds : AggResponse(i, "start")
    \/ \E i \in InstIds : StartListening(i)
    \/ \E i \in InstIds : SessionConnect(i)
    \/ \E i \in InstIds, sid \in SessIds, cid \in ClientReqIds, now \in Ticks :
          /\ sid \in inst[i].activeClientTransports
          /\ sid \in ReqLow
          /\ ProxyCall(i, "tools", "a", sid, ProxyId(sid, cid, now))
    \/ (\E r \in ReqIdx : SendOk(r)) /\ UNCHANGED vmVars
    \/ (\E r \in ReqIdx : Deliver(r, FALSE)) /\ UNCHANGED vmVars
    \/ (\E r \in ReqIdx : TimeoutTM(r)) /\ UNCHANGED vmVars

SpecIds == InitDegrade /\ [][NextIds]_vars

\* The refresh scheduler: upstreams are scheduled and unscheduled and the
\* interval is changed.
NextRefresh ==
    \/ \E s \in Sources : startRefresh(s)
    \/ \E s \in Sources : stopRefresh(s)
    \/ \E iv \in Intervals : updateInterval(iv)
    \/ UpdateIteration

SpecRefresh == InitTable /\ [][NextRefresh]_vars

\* The loop of updateInterval runs on: it is synchronous code.
SpecRefreshFair == SpecRefresh /\ WF_vars(UpdateIteration)

\* Connecting: the transport of Upstream is registered; the discoverer
\* sends on it, the manager connects and disconnects it and registers it
\* again.  A step is the code between two awaits that wait for the
\* network: start() on an empty queue, and the end of the queue loop,
\* return to the caller within the step.  FlushDone is the return of a
\* loop whose POST comes back after close() has emptied the queue.
NextConnect ==
    \/ (\E r \in ReqLow, i \in Ids : DiscRequest(r, i)) /\ UNCHANGED vmVars
    \/ TMConnect /\ UNCHANGED vmVars
    \/ (\E o \in Origins : messageQueue # <<>> /\ StartOk(o)) /\ UNCHANGED vmVars
    \/ (\E o \in Origins : StartDone(o)) /\ UNCHANGED vmVars
    \/ (\E o \in Origins : StartFail(o)) /\ UNCHANGED vmVars
    \/ (\E o \in Origins : Len(messageQueue) > 1 /\ FlushStep(o)) /\ UNCHANGED vmVars
    \/ (\E o \in Origins : FlushLast(o)) /\ UNCHANGED vmVars
    \/ (\E o \in Origins : FlushDone(o)) /\ UNCHANGED vmVars
    \/ (\E r \in ReqIdx : Deliver(r, FALSE)) /\ UNCHANGED vmVars
    \/ (\E r \in ReqIdx : TimeoutDisc(r)) /\ UNCHANGED vmVars
    \/ TMDisconnect /\ UNCHANGED vmVars
    \/ TMAddTransport /\ UNCHANGED vmVars

SpecConnect == InitReq /\ [][NextConnect]_vars

\* Management requests on the upstream configuration: one POST, one DELETE
\* and one PUT connection at a time, overlapping each other.  The
\* configuration starts with Upstream; the POSTs create the other upstream
\* and the DELETEs delete it, the PUTs toggle Upstream: requests that overlap
\* are for different upstreams, or are a POST refused with 400.
Other == CHOOSE n \in Sources : n # Upstream

\* Entries of the configuration beyond which no POST is completed.
MaxEntries == 2

\* The state after startup with Upstream configured: its transport is
\* registered, and either connected and discovered (status online, the
\* setup code's handlers) or, the initial connect having failed, not
\* connected (status error, the manager's handlers).
InitOps ==
    /\ mgmtPort = MainServerPort
    /\ catalog = ToolA
    /\ transports = {Upstream}
    /\ \E up \in BOOLEAN :
          /\ connectedIds = IF up THEN {Upstream} ELSE {}
          /\ isConnected = [s \in Sources |-> up /\ s = Upstream]
          /\ mcpServers = <<[name |-> Upstream, url |-> UrlOf[Upstream],
                             status |-> IF up THEN "online" ELSE "error",
                             isDisabled |-> FALSE]>>
          /\ wired = [s \in Sources |->
                         IF up /\ s = Upstream THEN "setup" ELSE "manager"]
    /\ IdleReq
    /\ held = [s \in Sources |-> IF s = Upstream THEN 1 ELSE 0]
    /\ lastOp = NoOp
    /\ health = NoHealth
    /\ refresh = NoRefresh
    /\ toggle = NoToggle
    /\ creates = [c \in CreateIdx |-> NoCreate]
    /\ deleting = NoDelete
    /\ vmcpStore = {}
    /\ defs = [v \in VIds |-> NoDef]
    /\ runningInstances = [v \in VIds |-> 0]
    /\ inst = [i \in InstIds |-> NoInst]
    /\ sessions = [sid \in SessIds |-> NoSession]
    /\ lastRoute = NoRoute
    /\ lastReply = NoReply
    /\ registry = EmptyRegistry
    /\ disc = [s \in Sources |-> NoDisc]

NextOps ==
    \/ CreateBegin(1, Other, UrlOf[Other], FreshObj)
    \/ CreateConnected(1)
    \/ CreateFailed(1)
    \/ Len(mcpServers) < MaxEntries /\ CreateDiscovered(1)
    \/ DeleteBegin(Other)
    \/ DeleteFinish
    \/ \E dis \in BOOLEAN : ToggleBegin(Upstream, dis)
    \/ ToggleDisconnected
    \/ ToggleConnected
    \/ ToggleFailed
    \/ ToggleDiscovered

SpecOps == InitOps /\ [][NextOps]_vars

\* Several sessions on one virtual server: clients connect, ask for the
\* lists and call tools, and the upstream answers.
NextSess ==
    \/ addVMCP(VmcpPort, <<"U1">>, AllRule)
    \/ \E i \in InstIds : AggResponse(i, "start")
    \/ \E i \in InstIds : StartListening(i)
    \/ \E i \in InstIds : SessionConnect(i)
    \/ \E i \in InstIds, sid \in SessIds, k \in Kinds : ListRequest(i, sid, k)
    \/ \E i \in InstIds, r \in ReqLow : ProxyCall(i, "tools", "a", r, 1)
    \/ (\E r \in ReqIdx : SendOk(r)) /\ UNCHANGED vmVars
    \/ (\E r \in ReqIdx : Deliver(r, FALSE)) /\ UNCHANGED vmVars

SpecSess == InitDegrade /\ [][NextSess]_vars



\* ------------------------------------------------------------------------
\* C1
\* ------------------------------------------------------------------------
Settled(r) == req[r].state \in {"result", "error", "timeout"}

\* A pending request still has the step that settles it ahead of it: the
\* start() it awaits, or its armed timeout (for a direct request, with its
\* handler still registered, which the timeout callback requires).
WillSettle(r) ==
    \/ req[r].send = "awaitStart" /\ ByReq(r) \in starters \cup flushers
    \/ /\ req[r].timer
       /\ req[r].via = "sse" => messageHandlers[req[r].id] = r

Issued(r) == req[r].state # "none"

DistinctIds ==
    \A r, q \in ReqIdx : Issued(r) /\ Issued(q) /\ r # q => req[r].id # req[q].id

\* Every request issued through the registry or the discoverer's helper
\* so far was POSTed without failure and none has timed out.
AllAnsweredInTime ==
    \A q \in ReqIdx :
        req[q].via \in {"tm", "disc"}
            => req[q].state # "timeout" /\ req[q].send # "failed"

\* C2: when requests with distinct ids are in flight on the same upstream
\* and the upstream answers each of them before its timeout, every request
\* completes with the response carrying its own id, whatever the order of
\* the responses.
C2_NoLostResponse ==
    DistinctIds /\ AllAnsweredInTime =>
        \A r \in ReqIdx :
            req[r].via \in {"tm", "disc"} /\ req[r].answered
                => /\ req[r].state \in {"result", "error"}
                   /\ req[r].resp = req[r].id

\* ------------------------------------------------------------------------
\* The aggregated view of an instance
\* ------------------------------------------------------------------------
NamesOf(arr) == {arr[j][1] : j \in 1..Len(arr)}
Occurrences(arr, n) == Cardinality({j \in 1..Len(arr) : arr[j][1] = n})

\* The sources whose list responses of the kind offered n since the arrays
\* were last cleared, and the first of them in sourceServerIds order.
Contributors(i, kind, n) == {s \in Sources : n \in inst[i].contrib[kind][s]}
FirstContributor(i, kind, n) ==
    Srcs(i)[CHOOSE j \in 1..Len(Srcs(i)) :
                /\ Srcs(i)[j] \in Contributors(i, kind, n)
                /\ \A m \in 1..(j - 1) : Srcs(i)[m] \notin Contributors(i, kind, n)]

\* The instance serves clients and no aggregation run is in progress on it.
Serving(i) ==
    /\ inst[i].startPc \in {"bound", "done"}
    /\ \A sl \in Slots : inst[i].agg[sl] = IdlePos

\* start() has returned successfully and no stop() has begun since.
Started(i) == inst[i].startPc = "done" /\ inst[i].mcpServer # "null"

\* ------------------------------------------------------------------------
\* C3
\* ------------------------------------------------------------------------
\* C3: when several sources of a vMCP expose the same tool name, the
\* aggregated tools contain that name once and tools/call for it is proxied
\* to the first source, in sourceServerIds order, that contributed it.
C3_FirstSourceWins ==
    \A i \in InstIds, n \in Names :
        Serving(i) /\ Cardinality(Contributors(i, "tools", n)) > 1
            => /\ Occurrences(inst[i].aggregated.tools, n) = 1
               /\ Route(inst[i], Srcs(i), "tools/call", n)
                      = FirstContributor(i, "tools", n)

\* ------------------------------------------------------------------------
\* C4
\* ------------------------------------------------------------------------
\* C4: in every state of an instance, each identifier in the aggregated
\* tools, prompts and resources has its routing-map entry, which records
\* the source the listed entry came from; a call/get for a listed
\* identifier is proxied to exactly the source recorded in that entry; and
\* the aggregated view is empty iff the routing map is empty.
C4_ViewMatchesMap ==
    \A i \in InstIds :
        inst[i].vid # 0 =>
            /\ \A kind \in Kinds :
                  \A j \in 1..Len(inst[i].aggregated[kind]) :
                      LET e == inst[i].aggregated[kind][j] IN
                      /\ CapGet(inst[i].capabilityMap, e[1]) = e[2]
                      /\ Route(inst[i], Srcs(i), MethodOf[kind], e[1])
                             = CapGet(inst[i].capabilityMap, e[1])
            /\ ViewEmpty(inst[i]) <=> inst[i].capabilityMap = EmptyMap

\* A client's prompts/get for a listed prompt was proxied to U1 and the
\* instance, which also lists a tool, is aggregating again for a callTool.
C4_Witness ==
    \E i \in InstIds :
        /\ lastRoute = [inst |-> i, method |-> "prompts/get", id |-> "a",
                        target |-> "U1"]
        /\ <<"a", "U1">> \in Range(inst[i].aggregated.prompts)
        /\ inst[i].aggregated.tools # <<>>
        /\ inst[i].agg["call"] # IdlePos

\* ------------------------------------------------------------------------
\* C5
\* ------------------------------------------------------------------------
\* C5: routing is keyed by (kind, identifier): when an identifier is
\* offered in two kinds, by the same source or by different sources, it
\* appears in the aggregated array of both kinds; a name used in one kind
\* never drops an entry of another kind.
C5_KeyedByKind ==
    \A i \in InstIds, n \in Names, k1 \in Kinds, k2 \in Kinds :
        /\ Serving(i)
        /\ k1 # k2
        /\ Contributors(i, k1, n) # {}
        /\ Contributors(i, k2, n) # {}
        => /\ n \in NamesOf(inst[i].aggregated[k1])
           /\ n \in NamesOf(inst[i].aggregated[k2])

\* ------------------------------------------------------------------------
\* C6
\* ------------------------------------------------------------------------
\* C6: between a successful start() and the next stop(), no step changes
\* the routing map or the aggregated arrays of the instance.
C6_ViewFrozen ==
    [][\A i \in InstIds :
          Started(i) /\ inst'[i].startPc = "done" /\ inst'[i].mcpServer # "null"
              => /\ inst'[i].aggregated = inst[i].aggregated
                 /\ inst'[i].capabilityMap = inst[i].capabilityMap]_vars

\* ------------------------------------------------------------------------
\* C7
\* ------------------------------------------------------------------------
\* C7: in every reachable state no two stored definitions share a port and
\* none uses the port of the management server.
C7_PortsDistinct ==
    \A v \in vmcpStore :
        /\ defs[v].port # mgmtPort
        /\ \A w \in vmcpStore \ {v} : defs[w].port # defs[v].port

\* ------------------------------------------------------------------------
\* C8
\* ------------------------------------------------------------------------
\* No other instance was constructed for the definition of instance i.
OnlyInstance(i) == \A j \in InstIds \ {i} : inst[j].vid # inst[i].vid

\* C8: if stopVMCP(id) or removeVMCP(id) ran while startVMCP(id) was
\* awaiting aggregation or the port bind, then once both have completed the
\* vMCP is not running: its status is stopped, no HTTP listener is bound,
\* no session exists and no instance remains in the running table.
C8_StopDuringStart ==
    \A i \in InstIds :
        /\ inst[i].stopDuringStart
        /\ inst[i].startPc \in {"done", "failed"}
        /\ inst[i].stopWait = "none"
        /\ OnlyInstance(i)
        => /\ defs[inst[i].vid].status = "stopped"
           /\ inst[i].httpServer # "listening"
           /\ inst[i].activeClientTransports = {}
           /\ \A sid \in SessIds : sessions[sid].inst = i => ~sessions[sid].open
           /\ runningInstances[inst[i].vid] = 0

\* ------------------------------------------------------------------------
\* C9
\* ------------------------------------------------------------------------
\* C9: after a stop() of an instance has completed, no new client session
\* can be established on its port, its session table is empty and every
\* session ever registered on it has had its SSE stream closed.
C9_StoppedForGood ==
    \A i \in InstIds :
        inst[i].stopDone
            => /\ ~(inst[i].httpServer = "listening" /\ inst[i].mcpServer # "null")
               /\ inst[i].activeClientTransports = {}
               /\ \A sid \in SessIds : sessions[sid].inst = i => ~sessions[sid].open

\* ------------------------------------------------------------------------
\* C10
\* ------------------------------------------------------------------------
\* C10: a stop() of an instance that waits always terminates.
C10_StopTerminates ==
    \A i \in InstIds : (inst[i].stopWait # "none") ~> (inst[i].stopWait = "none")

\* ------------------------------------------------------------------------
\* C11
\* ------------------------------------------------------------------------
\* C11: when the aggregation of start() ends, start() fails exactly when no
\* tool, no prompt and no resource was aggregated; in that case no HTTP
\* listener is bound, no request dispatcher remains, the manager holds no
\* running instance for the id, and a definition that is in the store
\* stays there with status error.
C11_NoCapabilities ==
    [][\A i \in InstIds :
          inst[i].startPc = "agg" /\ inst'[i].startPc # "agg"
              => IF ViewEmpty(inst'[i])
                 THEN /\ inst'[i].startPc = "failed"
                      /\ inst'[i].httpServer = "null"
                      /\ inst'[i].mcpServer = "null"
                      /\ runningInstances'[inst[i].vid] = 0
                      /\ inst[i].vid \in vmcpStore
                             => /\ inst[i].vid \in vmcpStore'
                                /\ defs'[inst[i].vid].status = "error"
                 ELSE inst'[i].startPc \in {"bound", "binderr"}]_vars

\* A start() has failed on an empty view; its definition is in the store.
C11_Witness ==
    \E i \in InstIds :
        /\ inst[i].startPc = "failed"
        /\ ViewEmpty(inst[i])
        /\ inst[i].vid \in vmcpStore
        /\ defs[inst[i].vid].status = "error"
        /\ runningInstances[inst[i].vid] = 0

\* ------------------------------------------------------------------------
\* C12
\* ------------------------------------------------------------------------
\* The manager holds a transport for s, has it recorded as connected, and
\* the transport's stream is up.
Healthy(s) == s \in transports /\ s \in connectedIds /\ isConnected[s]

\* C12: while a vMCP is running, once the transport of one of its sources
\* has reported close the status becomes partially_degraded if another
\* source is still healthy, and error if none is.
C12_Degraded ==
    \A v \in VIds :
        (/\ v \in vmcpStore
         /\ defs[v].status = "running"
         /\ \E s \in Range(defs[v].sourceServerIds) : ~Healthy(s))
        ~> (defs[v].status =
               IF \E s \in Range(defs[v].sourceServerIds) : Healthy(s)
               THEN "partially_degraded" ELSE "error")

\* ------------------------------------------------------------------------
\* C13
\* ------------------------------------------------------------------------
\* C13: a tools/call for an identifier the view lists from Upstream, made
\* after Upstream's transport has closed, is routed to Upstream and fails
\* at once: the request is rejected in the call, with no timer armed,
\* nothing sent, nothing queued and no start() triggered.
C13_FailFast ==
    [][\A i \in InstIds, r \in ReqIdx :
          /\ req[r].state = "none"
          /\ req'[r].state # "none"
          /\ lastRoute'.inst = i
          /\ <<lastRoute'.id, Upstream>> \in Range(inst[i].aggregated.tools)
          /\ ~isConnected[Upstream]
          => /\ lastRoute'.target = Upstream
             /\ req'[r].state = "error"
             /\ req'[r].send = "none"
             /\ ~req'[r].timer
             /\ messageQueue' = messageQueue
             /\ starters' = starters
             /\ upstreamRecv' = upstreamRecv
             /\ userOnMessageHandler' = userOnMessageHandler]_vars

\* ------------------------------------------------------------------------
\* C14
\* ------------------------------------------------------------------------
\* C14: after start() has succeeded, when the SSE stream errors and the
\* upstream accepts connections again, the transport reconnects by itself:
\* it eventually reports connected again (so that later requests succeed).
C14_Reconnects ==
    (~isConnected[Upstream]) ~> isConnected[Upstream]

\* ------------------------------------------------------------------------
\* C15
\* ------------------------------------------------------------------------
\* C15: close() on a transport completes every pending request with an
\* error in the step of the close and leaves the pending-request table and
\* the outgoing message queue empty.
C15_CloseCompletes ==
    [][(Upstream \in transports /\ Upstream \notin transports')
          => (/\ \A r \in ReqIdx :
                    req[r].state = "pending" => req'[r].state = "error"
              /\ messageQueue' = <<>>
              /\ messageHandlers' = [i \in Ids |-> User])]_vars

\* ------------------------------------------------------------------------
\* C16
\* ------------------------------------------------------------------------
\* C16: after a successful discoverCapabilities(s), what getToolsForServer
\* and getPromptsForServer return for s is exactly what the upstream
\* returned in that run; an entry of an earlier run that the upstream no
\* longer reports is gone.
C16_ExactlyReturned ==
    \A s \in Sources, k \in Range(DiscKinds) :
        disc[s].outcome = "ok" => getForServer(s, k) = Range(disc[s].got[k])

\* ------------------------------------------------------------------------
\* C17
\* ------------------------------------------------------------------------
\* C17: a discoverCapabilities(s) that succeeded has issued tools/list,
\* prompts/list and resources/list, and the registry holds for s the
\* resources the upstream offers as well as its tools and prompts.
C17_ThreeLists ==
    \A s \in Sources :
        disc[s].outcome = "ok"
        => /\ disc[s].asked = Kinds
           /\ \A k \in Kinds : Range(disc[s].got[k]) \subseteq getForServer(s, k)

\* ------------------------------------------------------------------------
\* C18
\* ------------------------------------------------------------------------
\* C18: when a list call of discoverCapabilities(s) fails, the run ends
\* with the error of the kind that was being listed, every entry s had in
\* the registry before the step is still there, as are the records of the
\* list calls of this run that succeeded, and the entries of the other
\* servers are as they were.
C18_PartialFailure ==
    [][\A s \in Sources :
          (/\ disc[s].pc \in Range(DiscKinds)
           /\ disc'[s].pc = "idle"
           /\ disc'[s].outcome # "ok")
          => (/\ disc'[s].outcome = ErrOf[disc[s].pc]
              /\ \A k \in Kinds :
                    /\ registry[s][k] \subseteq registry'[s][k]
                    /\ Range(disc[s].got[k]) \subseteq registry'[s][k]
              /\ \A t \in Sources \ {s} : registry'[t] = registry[t])]_vars

\* prompts/list of U2 failed after tools/list had registered two tools,
\* while U1 holds entries of its own.
C18_Witness ==
    /\ disc["U2"].outcome = "prompts_discovery_failed"
    /\ disc["U2"].pc = "idle"
    /\ registry["U2"]["tools"] = {"a", "b"}
    /\ registry["U1"]["tools"] = {"a"}

\* ------------------------------------------------------------------------
\* C19
\* ------------------------------------------------------------------------
\* Some include rule of the kind lists n.
InSomeRule(rules, kind, n) ==
    \E j \in 1..Len(rules) :
        rules[j].type = IncludeType[kind] /\ n \in rules[j].names

\* C19: the rules of a definition combine by union.  When the answer of
\* source s to the list request of a run is processed, every identifier of
\* the answer that some include rule of that kind lists, and that the view
\* does not hold yet, is in the view from s after the step.
C19_RulesUnion ==
    [][\A i \in InstIds, sl \in Slots, n \in Names :
          (/\ inst[i].agg[sl].ph \in Kinds
           /\ inst'[i].agg[sl] # inst[i].agg[sl]
           /\ inst'[i].vid = inst[i].vid
           /\ defs' = defs
           /\ n \in Range(catalog[Srcs(i)[inst[i].agg[sl].k]][inst[i].agg[sl].ph])
           /\ InSomeRule(Rules(i), inst[i].agg[sl].ph, n)
           /\ CapGet(inst[i].capabilityMap, n) = NoSource)
          => <<n, Srcs(i)[inst[i].agg[sl].k]>>
                 \in Range(inst'[i].aggregated[inst[i].agg[sl].ph])]_vars

\* ------------------------------------------------------------------------
\* C20
\* ------------------------------------------------------------------------
\* C20: a resources/get for the uri mcp://U2/r, which has no entry in the
\* routing map, is proxied to U2 when U2 is one of the sourceServerIds of
\* the definition and is answered with MethodNotFound (no target) when it
\* is not, whichever kinds the view holds.
C20_UriFallback ==
    [][\A i \in InstIds :
          (/\ lastRoute' # lastRoute
           /\ lastRoute'.inst = i
           /\ lastRoute'.method = "resources/get"
           /\ lastRoute'.id = UriOfU2
           /\ CapGet(inst[i].capabilityMap, UriOfU2) = NoSource)
          => lastRoute'.target = IF "U2" \in Range(Srcs(i)) THEN "U2"
                                 ELSE NoSource]_vars

\* ------------------------------------------------------------------------
\* C21
\* ------------------------------------------------------------------------
\* C21: adding a transport under a name that is already registered is
\* rejected: the transport stored under the name stays the one registered
\* first, and the add changes nothing of the table.
C21_DoubleAddRejected ==
    [][\A s \in Sources :
          (s \in transports /\ lastOp' = [op |-> "add", name |-> s])
          => (/\ held'[s] = held[s]
              /\ wired'[s] = wired[s]
              /\ isConnected'[s] = isConnected[s])]_vars

\* ------------------------------------------------------------------------
\* C22
\* ------------------------------------------------------------------------
\* C22: when the stream of a registered transport closes, the table drops
\* the transport: after the step getTransport(name) returns nothing and
\* isConnected(name) is false.
C22_CloseRemoves ==
    [][\A s \in Sources :
          (/\ s \in transports
           /\ isConnected[s]
           /\ ~isConnected'[s]
           /\ lastOp' = [op |-> "close", name |-> s])
          => (s \notin transports' /\ s \notin connectedIds')]_vars

\* ------------------------------------------------------------------------
\* C23
\* ------------------------------------------------------------------------
\* C23: every step that changes the status of a stored definition also
\* assigns its updatedAt, so that updatedAt is never older than the status.
C23_StatusBumpsUpdatedAt ==
    [][\A v \in VIds :
          (v \in vmcpStore' /\ defs'[v].status # defs[v].status)
          => defs'[v].updatedAt = "current"]_vars

\* ------------------------------------------------------------------------
\* C24
\* ------------------------------------------------------------------------
\* C24: when checkHealth() has returned, for every source whose probe
\* failed the result has healthy = false and its list of source statuses
\* holds an entry for that source with status error and a lastError.
C24_FailedSourceMarked ==
    (health.vid # 0 /\ health.k = 0)
    => \A s \in health.failed :
          /\ ~health.healthy
          /\ \E j \in 1..Len(health.underlyingServers) :
                /\ health.underlyingServers[j].serverId = s
                /\ health.underlyingServers[j].status = "error"
                /\ health.underlyingServers[j].lastError # "none"

\* ------------------------------------------------------------------------
\* C25
\* ------------------------------------------------------------------------
\* C25: no two entries of the upstream configuration share a name or a
\* url, in every reachable state.
C25_UniqueUpstreams ==
    \A j, m \in 1..Len(mcpServers) :
        j # m => /\ mcpServers[j].name # mcpServers[m].name
                 /\ mcpServers[j].url # mcpServers[m].url

\* ------------------------------------------------------------------------
\* C26
\* ------------------------------------------------------------------------
\* C26: every sourceServerId of every stored definition names an upstream
\* present in the configuration, in every reachable state.
C26_SourcesConfigured ==
    \A v \in vmcpStore :
        \A j \in 1..Len(defs[v].sourceServerIds) :
            defs[v].sourceServerIds[j] \in ServerNames(mcpServers)

\* The high-water mark of the message queue.  SSETransport has no such
\* option (its options are maxRetries, retryDelay, timeout, authToken) and
\* send() tests no length; the mark is placed below the largest queue the
\* model builds, so that what send() does at the mark is visible.
HighWaterMark == MaxQueue - 1

\* C27: the number of messages a transport buffers while it is not
\* connected never exceeds the high-water mark: at the mark a further
\* request is not buffered (it fails at once with queue_full).
C27_QueueBounded == Len(messageQueue) <= HighWaterMark

\* processMessageQueue() shifts a message and awaits its POST before it
\* shifts the next: of the messages at the head of messageQueue, one for
\* each running loop is being POSTed, and the others still wait.
Waiting ==
    LET n == Len(messageQueue)
        k == IF Cardinality(flushers) < n THEN Cardinality(flushers) ELSE n
    IN SubSeq(messageQueue, k + 1, n)

\* C28: the messages buffered by send() while the transport was not
\* connected are POSTed in the order of their send() calls, and no message
\* passed to send() later is POSTed before them: a message is POSTed
\* directly only when no buffered message still waits for its POST.
C28_FifoFlush ==
    [][\A r \in ReqIdx :
          (req[r].state = "none" /\ req'[r].send = "inflight")
          => Waiting = <<>>]_vars

Selected(rules, kind, n) ==
    \/ HasRule(rules, "aggregate_all")
    \/ HasRule(rules, IncludeType[kind]) /\ InRule(rules, kind, n)

\* The entries of the answer of source s that the rules select and the
\* array of the kind does not hold yet, in the order of the answer.
SelectedFrom(rec, rules, kind, s) ==
    LET e == SelectSeq(catalog[s][kind],
                       LAMBDA n : /\ Selected(rules, kind, n)
                                  /\ n \notin NamesOf(rec.aggregated[kind]))
    IN [j \in 1..Len(e) |-> <<e[j], s>>]

\* C30: when the answer of a source to the list request of a kind is
\* processed, the array of the kind grows by exactly the entries of the
\* answer that the include rule of the kind lists (with aggregate_all, by
\* all of them), in the order of the answer, each identifier once; the
\* sources are asked in sourceServerIds order, and a kind with no rule
\* holds nothing.
C30_IncludeFilter ==
    [][\A i \in InstIds, sl \in Slots :
          (/\ inst[i].agg[sl].ph \in Kinds
           /\ inst'[i].agg[sl] # inst[i].agg[sl]
           /\ inst'[i].vid = inst[i].vid
           /\ defs' = defs)
          => /\ inst'[i].aggregated[inst[i].agg[sl].ph]
                  = inst[i].aggregated[inst[i].agg[sl].ph]
                    \o SelectedFrom(inst[i], Rules(i), inst[i].agg[sl].ph,
                                    Srcs(i)[inst[i].agg[sl].k])
             /\ \A kind \in Kinds :
                   ~ShouldFetch(Rules(i), kind)
                   => inst'[i].aggregated[kind] = <<>>]_vars

\* ------------------------------------------------------------------------
\* C31
\* ------------------------------------------------------------------------
\* C31: at most one start() of the transport of an upstream is executing
\* at any time, whichever callers (connect, send on a disconnected
\* transport, request) invoke it.
C31_OneStart == Cardinality(starters \cup flushers) <= 1

\* ------------------------------------------------------------------------
\* C32
\* ------------------------------------------------------------------------
\* A request issued through TransportManager.request is in flight while
\* its promise is pending.
InFlight(r) == req[r].via = "tm" /\ req[r].state = "pending"

\* C32: the correlation ids of the requests in flight on one transport are
\* pairwise distinct, also for proxied requests of different sessions
\* minted at the same clock reading.
C32_DistinctInFlight ==
    \A r, q \in ReqIdx : InFlight(r) /\ InFlight(q) /\ r # q => req[r].id # req[q].id

\* ------------------------------------------------------------------------
\* C33
\* ------------------------------------------------------------------------
\* C33: the attempt counter never exceeds maxRetries, and the reconnect
\* sequence inside the start() that a request awaits ends either with
\* start() returned and the counter back at 0, or with the request
\* rejected with reconnection_failed.
C33_ReconnectBounded ==
    /\ [](retryCount <= MaxRetries)
    /\ [][\A r \in ReqIdx :
             (ByReq(r) \in reconnecting /\ ByReq(r) \notin reconnecting')
             => \/ retryCount' = 0 /\ req'[r].send = "inflight"
                \/ req'[r].err = "reconnection_failed"]_vars

\* ------------------------------------------------------------------------
\* C34
\* ------------------------------------------------------------------------
\* C34: every upstream has at most one timer that was not cleared, the one
\* the Map holds, also after startRefresh for an upstream that is already
\* scheduled; and updateInterval terminates, leaving every scheduled
\* upstream with a timer at the new interval.
C34_UpdateTerminates ==
    /\ [](\A s \in Sources :
             refresh.live[s] = IF refresh.timers[s] = 0 THEN 0 ELSE 1)
    /\ (refresh.pc = "update")
          ~> (/\ refresh.pc = "idle"
              /\ \A s \in Sources : refresh.timers[s] \in {0, refresh.interval})

\* ------------------------------------------------------------------------
\* C35
\* ------------------------------------------------------------------------
\* C35: every name recorded as connected has a registered transport.
C35_ConnectedRegistered == connectedIds \subseteq transports

\* ------------------------------------------------------------------------
\* C36
\* In every state a definition has status running only if the running table
\* holds an instance for its id whose listener is bound, and status stopped
\* only if the running table holds no instance for its id.  A listener that
\* a stop in progress is closing counts as bound until the stop completes.
\* ------------------------------------------------------------------------
C36_StatusMatchesTable ==
    \A v \in vmcpStore :
        /\ defs[v].status = "running"
              => /\ runningInstances[v] # 0
                 /\ inst[runningInstances[v]].httpServer \in {"listening", "closing"}
        /\ defs[v].status = "stopped" => runningInstances[v] = 0

\* ------------------------------------------------------------------------
\* C37
\* Whenever no request issued through TransportManager.request or the
\* discoverer's manualRequestResponse is in flight (none is pending, has a
\* timer armed or a POST outstanding), the onmessage slot of the transport
\* holds the handler that was installed before those requests.
\* ------------------------------------------------------------------------
Quiescent(r) ==
    /\ req[r].state # "pending"
    /\ ~req[r].timer
    /\ req[r].send \notin {"inflight", "queued"}

C37_HandlerRestored ==
    (\A r \in ReqIdx : req[r].via \in {"tm", "disc"} => Quiescent(r))
        => userOnMessageHandler = User

\* ------------------------------------------------------------------------
\* C38
\* No management operation undoes the effect of another on the upstream
\* configuration: an entry leaves the configuration only in the step that
\* completes the DELETE of its upstream, enters it only in the step that
\* completes the POST of its upstream, and changes its status only in the
\* step that completes a PUT connection for its upstream.
\* ------------------------------------------------------------------------
StatusOf(list, n) == list[findIndex(list, n)].status

C38_NoLostUpdate ==
    [][\A n \in Sources :
          /\ (n \in ServerNames(mcpServers) /\ n \notin ServerNames(mcpServers'))
                => (/\ deleting.pc = "disconnect"
                    /\ deleting.name = n
                    /\ deleting'.code = 204)
          /\ (n \notin ServerNames(mcpServers) /\ n \in ServerNames(mcpServers'))
                => \E c \in CreateIdx :
                      /\ creates[c].pc = "discover"
                      /\ creates[c].name = n
                      /\ creates'[c].code = 201
          /\ (/\ n \in ServerNames(mcpServers)
              /\ n \in ServerNames(mcpServers')
              /\ StatusOf(mcpServers', n) # StatusOf(mcpServers, n))
                => (/\ toggle' # toggle
                    /\ toggle'.pc = "idle"
                    /\ toggle'.name = n)]_vars

\* ------------------------------------------------------------------------
\* C39
\* When the entry of an upstream was written by a PUT connection with
\* isDisabled true (disabled, offline) and a PUT connection with isDisabled
\* false for it completes without a network failure, the entry has status
\* online and the transport of the upstream is registered and connected.
\* ------------------------------------------------------------------------
DisabledEntry(n) ==
    /\ n \in ServerNames(mcpServers)
    /\ mcpServers[findIndex(mcpServers, n)].isDisabled
    /\ StatusOf(mcpServers, n) = "offline"

C39_ReEnable ==
    [][\A n \in Sources :
          (/\ DisabledEntry(n)
           /\ toggle' # toggle
           /\ toggle'.pc = "idle"
           /\ toggle'.name = n
           /\ ~toggle'.isDisabled
           /\ toggle'.code = 200
           /\ toggle'.cause # "network")
          => (/\ n \in ServerNames(mcpServers')
              /\ StatusOf(mcpServers', n) = "online"
              /\ n \in transports'
              /\ n \in connectedIds')]_vars

\* ------------------------------------------------------------------------
\* C40
\* With several client sessions open on one virtual server, the response to
\* a request is written to the SSE stream of the session whose POST
\* /message carried the request.
\* ------------------------------------------------------------------------
C40_OwnStream == lastReply.inst # 0 => lastReply.on = lastReply.from

====
